---------------------------- MODULE Spec2Model ----------------------------
(***************************************************************************)
(* Model of the permission engine of cli/permissions.rs: the tri-state     *)
(* PermissionState, UnaryPermission (global state + allow-list +           *)
(* deny-list), the Permissions aggregate and the verbs query / check /     *)
(* request / revoke / fork.                                                *)
(*                                                                         *)
(* A path (Path / PathBuf) is a record [abs, segs]: whether it starts at   *)
(* the root, and its components in order.  An Option<T> is a sequence of   *)
(* length 0 (None) or 1 (Some(x)).  A Result is a record with field ok.    *)
(***************************************************************************)
EXTENDS Integers, Sequences, FiniteSets, TLC

VARIABLES
  perms,   \* the process-wide Permissions value
  cwd,     \* std::env::current_dir() of the process
  last,    \* the last verb call: its name, arguments, result and the value before it
  denials, \* history: the unary classes on which the operator has denied a concrete target
  n,       \* number of verb calls made so far
  gate,    \* the exclusive-access gate the host keeps the value under
  callers  \* the position of each concurrent caller inside its verb call

vars == <<perms, cwd, last, denials, n, gate, callers>>

\* Number of verb calls explored from a freshly constructed value.
MaxCalls == 2

-----------------------------------------------------------------------------
(* Option and Result *)

None == <<>>
Some(x) == <<x>>
is_some(o) == Len(o) = 1
unwrap(o) == o[1]

Ok(v) == [ok |-> TRUE, val |-> v]
Err(kind, msg) == [ok |-> FALSE, kind |-> kind, msg |-> msg]

-----------------------------------------------------------------------------
(* PermissionState *)

Granted == "Granted"
Prompt == "Prompt"
Denied == "Denied"
PermissionState == {Granted, Prompt, Denied}

\* Mutant of from_bool: an absent flag denies.
from_bool_false_denied(val) == IF val THEN Granted ELSE Denied

\* impl From<bool> for PermissionState
from_bool(val) == IF val THEN Granted ELSE Prompt

permission_escalation_error ==
  Err("PermissionDenied", "Arguments escalate parent permissions")

\* Mutant of state_check: Prompt is let through like Granted.
state_check_prompt_passes(self, msg, flag_name) ==
  IF self # Denied
    THEN Ok("unit")
    ELSE Err("PermissionDenied", msg \o ", run again with the " \o flag_name \o " flag")

\* PermissionState::check: Ok(()) only for Granted.
state_check(self, msg, flag_name) ==
  IF self = Granted
    THEN Ok("unit")
    ELSE Err("PermissionDenied", msg \o ", run again with the " \o flag_name \o " flag")

\* Mutant of state_check_fork: only Denied -> Granted is refused.
state_check_fork_denied_to_granted(self, other) ==
  IF self = Denied /\ other = Granted
    THEN permission_escalation_error
    ELSE Ok("unit")

\* Mutant of state_check_fork: the Prompt -> Granted escalation is not refused.
state_check_fork_denied_only(self, other) ==
  IF self = Denied /\ other # Denied
    THEN permission_escalation_error
    ELSE Ok("unit")

\* PermissionState::check_fork: `other` must not escalate `self`.
state_check_fork(self, other) ==
  IF \/ (self = Denied /\ other # Denied)
     \/ (self = Prompt /\ other = Granted)
    THEN permission_escalation_error
    ELSE Ok("unit")

-----------------------------------------------------------------------------
(* Paths *)

AbsPath(segs) == [abs |-> TRUE, segs |-> segs]
RelPath(segs) == [abs |-> FALSE, segs |-> segs]

IsPrefix(s, t) == Len(s) <= Len(t) /\ \A i \in 1..Len(s) : s[i] = t[i]

\* Path::starts_with: `base` is a prefix of `path`, whole components only.
starts_with(path, base) == path.abs = base.abs /\ IsPrefix(base.segs, path.segs)

\* fs::normalize_path: folds "." and ".." lexically.
RECURSIVE normalize_segs(_, _)
normalize_segs(segs, ret) ==
  IF segs = <<>> THEN ret
  ELSE LET c == Head(segs) IN
       normalize_segs(Tail(segs),
         IF c = "." THEN ret
         ELSE IF c = ".." THEN (IF ret = <<>> THEN ret ELSE SubSeq(ret, 1, Len(ret) - 1))
         ELSE Append(ret, c))

normalize_path(path) == [abs |-> path.abs, segs |-> normalize_segs(path.segs, <<>>)]

\* fs::resolve_from_cwd: join a relative path to the current directory, then normalize.
resolve_from_cwd(path) ==
  normalize_path(IF path.abs THEN path ELSE AbsPath(cwd.segs \o path.segs))

RECURSIVE join_segs(_)
join_segs(segs) ==
  IF segs = <<>> THEN ""
  ELSE IF Len(segs) = 1 THEN segs[1]
  ELSE segs[1] \o "/" \o join_segs(Tail(segs))

\* Path::display
display(path) == (IF path.abs THEN "/" ELSE "") \o join_segs(path.segs)

\* check_path_allowlist: some entry is the path or an ancestor of it.
check_path_allowlist(path, allowlist) ==
  \E path_ \in allowlist : starts_with(path, path_)

\* Mutant of check_path_blocklist: only an entry equal to the path hits.
check_path_blocklist_exact(path, blocklist) ==
  \E path_ \in blocklist : path_ = path

\* Mutant of check_path_blocklist: an entry also hits the paths below it.
check_path_blocklist_both_ways(path, blocklist) ==
  \E path_ \in blocklist : starts_with(path_, path) \/ starts_with(path, path_)

\* check_path_blocklist: some entry is the path or a descendant of it.
check_path_blocklist(path, blocklist) ==
  \E path_ \in blocklist : starts_with(path_, path)

\* check_host_and_port_list: the bare host, or "host:port" literally.
check_host_and_port_list(host, port, allowlist) ==
  \/ host \in allowlist
  \/ (is_some(port) /\ (host \o ":" \o ToString(unwrap(port))) \in allowlist)

-----------------------------------------------------------------------------
(* URLs.  Url::parse is the url crate's; it is modelled by its result on    *)
(* each URL string the model uses.                                          *)

ParsedUrl(scheme, host, port, serialization) ==
  [scheme |-> scheme, host |-> host, port |-> port, serialization |-> serialization]

Url_parse(url) ==
  CASE url = "http://127.0.0.1:8000" ->
         Ok(ParsedUrl("http", Some("127.0.0.1"), Some(8000), "http://127.0.0.1:8000/"))
    [] url = "https://deno.land/std" ->
         Ok(ParsedUrl("https", Some("deno.land"), None, "https://deno.land/std"))
    [] url = "https://www.github.com:443/robots.txt" ->
         \* the scheme's default port is not kept
         Ok(ParsedUrl("https", Some("www.github.com"), None, "https://www.github.com/robots.txt"))
    [] url = "https://www.github.com/robots.txt" ->
         Ok(ParsedUrl("https", Some("www.github.com"), None, "https://www.github.com/robots.txt"))
    [] url = "https://github.com:3000/denoland/deno" ->
         Ok(ParsedUrl("https", Some("github.com"), Some(3000), "https://github.com:3000/denoland/deno"))
    [] url = "https://github.com/denoland/deno" ->
         Ok(ParsedUrl("https", Some("github.com"), None, "https://github.com/denoland/deno"))
    [] url = "https://github.com:2000/denoland/deno" ->
         Ok(ParsedUrl("https", Some("github.com"), Some(2000), "https://github.com:2000/denoland/deno"))
    [] url = "https://deno.lands/std/example/welcome.ts" ->
         Ok(ParsedUrl("https", Some("deno.lands"), None, "https://deno.lands/std/example/welcome.ts"))
    [] url = "tcp://172.16.0.2" ->
         \* no known default port for the scheme
         Ok(ParsedUrl("tcp", Some("172.16.0.2"), None, "tcp://172.16.0.2"))
    [] url = "file:/1.txt" ->
         Ok(ParsedUrl("file", None, None, "file:///1.txt"))
    [] url = "localhost:235" ->
         \* parsed as scheme:path, so there is no host
         Ok(ParsedUrl("localhost", None, None, "localhost:235"))
    [] OTHER ->
         Err("ParseError", "relative URL without a base")

\* Mutant of port_or_known_default: only a port written in the URL counts.
port_written_only(parsed) == parsed.port

\* Url::port_or_known_default
port_or_known_default(parsed) ==
  IF is_some(parsed.port) THEN parsed.port
  ELSE CASE parsed.scheme \in {"http", "ws"} -> Some(80)
         [] parsed.scheme \in {"https", "wss"} -> Some(443)
         [] parsed.scheme = "ftp" -> Some(21)
         [] OTHER -> None

-----------------------------------------------------------------------------
(* UnaryPermission and Permissions *)

UnaryPermission(global_state, granted_list, denied_list) ==
  [global_state |-> global_state, granted_list |-> granted_list,
   denied_list |-> denied_list]

\* Mutant of unary_check_fork: the allow-lists are not compared when the
\* parent's global state is Granted.
unary_check_fork_granted_covers(self, other) ==
  IF ~state_check_fork(self.global_state, other.global_state).ok
    THEN state_check_fork(self.global_state, other.global_state)
  ELSE IF self.global_state # Granted /\ ~(other.granted_list \subseteq self.granted_list)
    THEN permission_escalation_error
  ELSE IF ~(self.denied_list \subseteq other.denied_list)
    THEN permission_escalation_error
  ELSE Ok("unit")

\* Mutant of unary_check_fork: the two lists are not compared.
unary_check_fork_state_only(self, other) ==
  state_check_fork(self.global_state, other.global_state)

\* UnaryPermission::check_fork
unary_check_fork(self, other) ==
  IF ~state_check_fork(self.global_state, other.global_state).ok
    THEN state_check_fork(self.global_state, other.global_state)
  ELSE IF ~(other.granted_list \subseteq self.granted_list)
    THEN permission_escalation_error
  ELSE IF ~(self.denied_list \subseteq other.denied_list)
    THEN permission_escalation_error
  ELSE Ok("unit")

\* fn resolve_fs_allowlist
resolve_fs_allowlist(allowlist) == {resolve_from_cwd(raw_path) : raw_path \in allowlist}

\* Permissions::from_flags
from_flags(flags) ==
  [read   |-> UnaryPermission(from_bool(flags.allow_read),
                              resolve_fs_allowlist(flags.read_allowlist), {}),
   write  |-> UnaryPermission(from_bool(flags.allow_write),
                              resolve_fs_allowlist(flags.write_allowlist), {}),
   net    |-> UnaryPermission(from_bool(flags.allow_net), flags.net_allowlist, {}),
   env    |-> from_bool(flags.allow_env),
   run    |-> from_bool(flags.allow_run),
   plugin |-> from_bool(flags.allow_plugin),
   hrtime |-> from_bool(flags.allow_hrtime)]

\* Permissions::allow_all
allow_all ==
  [read   |-> UnaryPermission(Granted, {}, {}),
   write  |-> UnaryPermission(Granted, {}, {}),
   net    |-> UnaryPermission(Granted, {}, {}),
   env |-> Granted, run |-> Granted, plugin |-> Granted, hrtime |-> Granted]

-----------------------------------------------------------------------------
(* query *)

\* Mutant of query_read: a Denied global state alone denies, as in query_net.
query_read_global_denied_wins(self, path) ==
  LET resolved == IF is_some(path) THEN Some(resolve_from_cwd(unwrap(path))) ELSE None IN
  IF self.read.global_state = Denied THEN Denied
  ELSE IF \/ self.read.global_state = Granted
          \/ (IF is_some(resolved)
                THEN check_path_allowlist(unwrap(resolved), self.read.granted_list)
                ELSE FALSE)
    THEN Granted
  ELSE Prompt

\* Mutant of query_read: the Granted rule is tried before the Denied rule.
query_read_granted_first(self, path) ==
  LET resolved == IF is_some(path) THEN Some(resolve_from_cwd(unwrap(path))) ELSE None IN
  IF \/ self.read.global_state = Granted
     \/ (IF is_some(resolved)
           THEN check_path_allowlist(unwrap(resolved), self.read.granted_list)
           ELSE FALSE)
    THEN Granted
  ELSE IF /\ self.read.global_state = Denied
          /\ (IF is_some(resolved)
                THEN check_path_blocklist(unwrap(resolved), self.read.denied_list)
                ELSE TRUE)
    THEN Denied
  ELSE Prompt

\* Permissions::query_read
query_read(self, path) ==
  LET resolved == IF is_some(path) THEN Some(resolve_from_cwd(unwrap(path))) ELSE None IN
  IF /\ self.read.global_state = Denied
     /\ (IF is_some(resolved)
           THEN check_path_blocklist(unwrap(resolved), self.read.denied_list)
           ELSE TRUE)
    THEN Denied
  ELSE IF \/ self.read.global_state = Granted
          \/ (IF is_some(resolved)
                THEN check_path_allowlist(unwrap(resolved), self.read.granted_list)
                ELSE FALSE)
    THEN Granted
  ELSE Prompt

\* Mutant of query_write: the path is matched as written, not resolved.
query_write_unresolved(self, path) ==
  IF /\ self.write.global_state = Denied
     /\ (IF is_some(path)
           THEN check_path_blocklist(unwrap(path), self.write.denied_list)
           ELSE TRUE)
    THEN Denied
  ELSE IF \/ self.write.global_state = Granted
          \/ (IF is_some(path)
                THEN check_path_allowlist(unwrap(path), self.write.granted_list)
                ELSE FALSE)
    THEN Granted
  ELSE Prompt

\* Mutant of query_write: a Denied global state alone denies, as in query_net.
query_write_global_denied_wins(self, path) ==
  LET resolved == IF is_some(path) THEN Some(resolve_from_cwd(unwrap(path))) ELSE None IN
  IF \/ self.write.global_state = Denied
     \/ (IF is_some(resolved)
           THEN check_path_blocklist(unwrap(resolved), self.write.denied_list)
           ELSE TRUE)
    THEN Denied
  ELSE IF \/ self.write.global_state = Granted
          \/ (IF is_some(resolved)
                THEN check_path_allowlist(unwrap(resolved), self.write.granted_list)
                ELSE FALSE)
    THEN Granted
  ELSE Prompt

\* Permissions::query_write
query_write(self, path) ==
  LET resolved == IF is_some(path) THEN Some(resolve_from_cwd(unwrap(path))) ELSE None IN
  IF /\ self.write.global_state = Denied
     /\ (IF is_some(resolved)
           THEN check_path_blocklist(unwrap(resolved), self.write.denied_list)
           ELSE TRUE)
    THEN Denied
  ELSE IF \/ self.write.global_state = Granted
          \/ (IF is_some(resolved)
                THEN check_path_allowlist(unwrap(resolved), self.write.granted_list)
                ELSE FALSE)
    THEN Granted
  ELSE Prompt

\* Permissions::query_net
query_net(self, host, port) ==
  IF \/ self.net.global_state = Denied
     \/ check_host_and_port_list(host, port, self.net.denied_list)
    THEN Denied
  ELSE IF \/ self.net.global_state = Granted
          \/ check_host_and_port_list(host, port, self.net.granted_list)
    THEN Granted
  ELSE Prompt

\* Mutant of query_net_url: a URL without a host is answered with the global state.
query_net_url_hostless_global(self, url) ==
  IF ~is_some(url) THEN Ok(self.net.global_state)
  ELSE LET parsed == Url_parse(unwrap(url)) IN
       IF ~parsed.ok THEN parsed
       ELSE IF ~is_some(parsed.val.host) THEN Ok(self.net.global_state)
       ELSE Ok(query_net(self, unwrap(parsed.val.host), port_or_known_default(parsed.val)))

\* Permissions::query_net_url
query_net_url(self, url) ==
  IF ~is_some(url) THEN Ok(self.net.global_state)
  ELSE LET parsed == Url_parse(unwrap(url)) IN
       IF ~parsed.ok THEN parsed
       ELSE IF ~is_some(parsed.val.host)
         THEN Err("URIError", "invalid urlormat: <scheme>://<host>[:port][/subpath]")
       ELSE Ok(query_net(self, unwrap(parsed.val.host), port_or_known_default(parsed.val)))

query_env(self) == self.env
query_run(self) == self.run
query_plugin(self) == self.plugin
query_hrtime(self) == self.hrtime

\* Mutant of resolved_and_display_path: the resolved path is displayed always.
resolved_and_display_path_resolved(self, path) ==
  <<resolve_from_cwd(path), resolve_from_cwd(path)>>

\* Permissions::resolved_and_display_path: <<resolved, display>>
resolved_and_display_path(self, path) ==
  LET resolved_path == resolve_from_cwd(path)
      display_path ==
        IF path.abs THEN path
        ELSE IF state_check(query_read(self, Some(cwd)), "", "").ok
          THEN resolved_path
          ELSE path
  IN <<resolved_path, display_path>>

-----------------------------------------------------------------------------
(* check *)

\* Permissions::check_read
check_read(self, path) ==
  LET rd == resolved_and_display_path(self, path) IN
  state_check(query_read(self, Some(rd[1])),
              "read access to \"" \o display(rd[2]) \o "\"", "--allow-read")

\* Permissions::check_read_blind
check_read_blind(self, path, display_) ==
  LET resolved_path == resolve_from_cwd(path) IN
  state_check(query_read(self, Some(resolved_path)),
              "read access to <" \o display_ \o ">", "--allow-read")

\* Permissions::check_write
check_write(self, path) ==
  LET rd == resolved_and_display_path(self, path) IN
  state_check(query_write(self, Some(rd[1])),
              "write access to \"" \o display(rd[2]) \o "\"", "--allow-write")

\* Permissions::check_net
check_net(self, hostname, port) ==
  state_check(query_net(self, hostname, Some(port)),
              "network access to \"" \o hostname \o ":" \o ToString(port) \o "\"",
              "--allow-net")

\* Permissions::check_net_url: `url` is a parsed url::Url
check_net_url(self, url) ==
  IF ~is_some(url.host) THEN Err("URIError", "missing host")
  ELSE state_check(query_net(self, unwrap(url.host), port_or_known_default(url)),
                   "network access to \"" \o url.serialization \o "\"", "--allow-net")

\* Permissions::check_env
check_env(self) == state_check(self.env, "access to environment variables", "--allow-env")

\* Permissions::check_run
check_run(self) == state_check(self.run, "access to run a subprocess", "--allow-run")

\* Permissions::check_plugin
check_plugin(self, path) ==
  LET rd == resolved_and_display_path(self, path) IN
  state_check(self.plugin, "access to open a plugin: " \o display(rd[2]), "--allow-plugin")

\* Permissions::check_hrtime
check_hrtime(self) == state_check(self.hrtime, "access to high precision time", "--allow-run")

\* Mutant of fork: the child keeps the parent's read allow-list.
fork_inherits_read_list(self, read, write, net, env, run, plugin, hrtime) ==
  IF ~unary_check_fork(self.read, read).ok THEN unary_check_fork(self.read, read)
  ELSE IF ~unary_check_fork(self.write, write).ok THEN unary_check_fork(self.write, write)
  ELSE IF ~unary_check_fork(self.net, net).ok THEN unary_check_fork(self.net, net)
  ELSE IF ~state_check_fork(self.env, env).ok THEN state_check_fork(self.env, env)
  ELSE IF ~state_check_fork(self.run, run).ok THEN state_check_fork(self.run, run)
  ELSE IF ~state_check_fork(self.plugin, plugin).ok THEN state_check_fork(self.plugin, plugin)
  ELSE IF ~state_check_fork(self.hrtime, hrtime).ok THEN state_check_fork(self.hrtime, hrtime)
  ELSE Ok([read |-> [read EXCEPT !.granted_list = self.read.granted_list],
           write |-> write, net |-> net, env |-> env, run |-> run,
           plugin |-> plugin, hrtime |-> hrtime])

\* Permissions::fork: the child, or the escalation error
fork(self, read, write, net, env, run, plugin, hrtime) ==
  IF ~unary_check_fork(self.read, read).ok THEN unary_check_fork(self.read, read)
  ELSE IF ~unary_check_fork(self.write, write).ok THEN unary_check_fork(self.write, write)
  ELSE IF ~unary_check_fork(self.net, net).ok THEN unary_check_fork(self.net, net)
  ELSE IF ~state_check_fork(self.env, env).ok THEN state_check_fork(self.env, env)
  ELSE IF ~state_check_fork(self.run, run).ok THEN state_check_fork(self.run, run)
  ELSE IF ~state_check_fork(self.plugin, plugin).ok THEN state_check_fork(self.plugin, plugin)
  ELSE IF ~state_check_fork(self.hrtime, hrtime).ok THEN state_check_fork(self.hrtime, hrtime)
  ELSE Ok([read |-> read, write |-> write, net |-> net, env |-> env, run |-> run,
           plugin |-> plugin, hrtime |-> hrtime])


-----------------------------------------------------------------------------
(* The prompt.  io is the terminal the process runs on: whether stdin and   *)
(* stderr are TTYs, and what the successive read_line calls give: a line is *)
(* given by its first character ("\n" is a line with nothing typed), "ERR"  *)
(* is a failed read, and "" is end of input, where read_line succeeds and   *)
(* leaves the buffer empty.                                                 *)

RECURSIVE prompt_loop(_)
prompt_loop(input) ==
  IF input = <<>> THEN "blocked"            \* still waiting on stdin
  ELSE LET ch == Head(input) IN
       IF ch = "ERR" THEN "deny"
       ELSE IF ch = "" THEN "panic"         \* chars().next().unwrap() on an empty buffer
       ELSE IF ch \in {"g", "G"} THEN "grant"
       ELSE IF ch \in {"d", "D"} THEN "deny"
       ELSE prompt_loop(Tail(input))

\* Mutant of permission_prompt: the input is read whether or not there is a TTY.
permission_prompt_reads_anyway(message, io) == prompt_loop(io.input)

\* fn permission_prompt (the non-test build): "grant", "deny", or no return
permission_prompt(message, io) ==
  IF ~io.stdin_tty \/ ~io.stderr_tty THEN "deny" ELSE prompt_loop(io.input)

\* What a request yields: the new value, the returned verdict, and whether and
\* with which message the operator was asked.
Outcome(p, ret, prompted, message) ==
  [perms |-> p, ret |-> ret, prompted |-> prompted, message |-> message]

\* A call that never returns (the prompt panicked or is still waiting).
NoReturn(self, answer, message) ==
  Outcome(self, Err(answer, "permission_prompt did not return"), TRUE, message)

-----------------------------------------------------------------------------
(* request *)

\* Mutant of request_read: the grant is inserted before the allow-list is pruned,
\* so the pruning removes it again.
request_read_insert_first(self, path, io) ==
  IF is_some(path) THEN
    LET rd == resolved_and_display_path(self, unwrap(path))
        resolved_path == rd[1]
        message == "Deno requests read access to \"" \o display(rd[2]) \o "\""
        state == query_read(self, Some(resolved_path))
        answer == permission_prompt(message, io)
    IN IF state = Prompt THEN
         IF answer = "grant" THEN
           Outcome([self EXCEPT !.read.granted_list =
                      {path_ \in @ \cup {resolved_path} :
                         ~starts_with(path_, resolved_path)}],
                   Granted, TRUE, message)
         ELSE IF answer = "deny" THEN
           Outcome([self EXCEPT !.read.denied_list =
                      {path_ \in @ : ~starts_with(resolved_path, path_)}
                        \cup {resolved_path},
                                !.read.global_state = Denied],
                   Denied, TRUE, message)
         ELSE NoReturn(self, answer, message)
       ELSE Outcome(self, state, FALSE, "")
  ELSE
    LET state == query_read(self, None)
        message == "Deno requests read access"
        answer == permission_prompt(message, io)
    IN IF state = Prompt THEN
         IF answer = "grant" THEN
           Outcome([self EXCEPT !.read.granted_list = {},
                                !.read.global_state = Granted],
                   Granted, TRUE, message)
         ELSE IF answer = "deny" THEN
           Outcome([self EXCEPT !.read.global_state = Denied], Denied, TRUE, message)
         ELSE NoReturn(self, answer, message)
       ELSE Outcome(self, state, FALSE, "")

\* Mutant of request_read: every verdict but Granted asks the operator.
request_read_reprompts(self, path, io) ==
  IF is_some(path) THEN
    LET rd == resolved_and_display_path(self, unwrap(path))
        resolved_path == rd[1]
        message == "Deno requests read access to \"" \o display(rd[2]) \o "\""
        state == query_read(self, Some(resolved_path))
        answer == permission_prompt(message, io)
    IN IF state # Granted THEN
         IF answer = "grant" THEN
           Outcome([self EXCEPT !.read.granted_list =
                      {path_ \in @ : ~starts_with(path_, resolved_path)}
                        \cup {resolved_path}],
                   Granted, TRUE, message)
         ELSE IF answer = "deny" THEN
           Outcome([self EXCEPT !.read.denied_list =
                      {path_ \in @ : ~starts_with(resolved_path, path_)}
                        \cup {resolved_path},
                                !.read.global_state = Denied],
                   Denied, TRUE, message)
         ELSE NoReturn(self, answer, message)
       ELSE Outcome(self, state, FALSE, "")
  ELSE
    LET state == query_read(self, None)
        message == "Deno requests read access"
        answer == permission_prompt(message, io)
    IN IF state # Granted THEN
         IF answer = "grant" THEN
           Outcome([self EXCEPT !.read.granted_list = {},
                                !.read.global_state = Granted],
                   Granted, TRUE, message)
         ELSE IF answer = "deny" THEN
           Outcome([self EXCEPT !.read.global_state = Denied], Denied, TRUE, message)
         ELSE NoReturn(self, answer, message)
       ELSE Outcome(self, state, FALSE, "")

\* Mutant of request_read: a denial does not prune the entries above the path.
request_read_deny_no_prune(self, path, io) ==
  IF is_some(path) THEN
    LET rd == resolved_and_display_path(self, unwrap(path))
        resolved_path == rd[1]
        message == "Deno requests read access to \"" \o display(rd[2]) \o "\""
        state == query_read(self, Some(resolved_path))
        answer == permission_prompt(message, io)
    IN IF state = Prompt THEN
         IF answer = "grant" THEN
           Outcome([self EXCEPT !.read.granted_list =
                      {path_ \in @ : ~starts_with(path_, resolved_path)}
                        \cup {resolved_path}],
                   Granted, TRUE, message)
         ELSE IF answer = "deny" THEN
           Outcome([self EXCEPT !.read.denied_list = @ \cup {resolved_path},
                                !.read.global_state = Denied],
                   Denied, TRUE, message)
         ELSE NoReturn(self, answer, message)
       ELSE Outcome(self, state, FALSE, "")
  ELSE
    LET state == query_read(self, None)
        message == "Deno requests read access"
        answer == permission_prompt(message, io)
    IN IF state = Prompt THEN
         IF answer = "grant" THEN
           Outcome([self EXCEPT !.read.granted_list = {},
                                !.read.global_state = Granted],
                   Granted, TRUE, message)
         ELSE IF answer = "deny" THEN
           Outcome([self EXCEPT !.read.global_state = Denied], Denied, TRUE, message)
         ELSE NoReturn(self, answer, message)
       ELSE Outcome(self, state, FALSE, "")

\* Permissions::request_read
request_read(self, path, io) ==
  IF is_some(path) THEN
    LET rd == resolved_and_display_path(self, unwrap(path))
        resolved_path == rd[1]
        message == "Deno requests read access to \"" \o display(rd[2]) \o "\""
        state == query_read(self, Some(resolved_path))
        answer == permission_prompt(message, io)
    IN IF state = Prompt THEN
         IF answer = "grant" THEN
           Outcome([self EXCEPT !.read.granted_list =
                      {path_ \in @ : ~starts_with(path_, resolved_path)}
                        \cup {resolved_path}],
                   Granted, TRUE, message)
         ELSE IF answer = "deny" THEN
           Outcome([self EXCEPT !.read.denied_list =
                      {path_ \in @ : ~starts_with(resolved_path, path_)}
                        \cup {resolved_path},
                                !.read.global_state = Denied],
                   Denied, TRUE, message)
         ELSE NoReturn(self, answer, message)
       ELSE Outcome(self, state, FALSE, "")
  ELSE
    LET state == query_read(self, None)
        message == "Deno requests read access"
        answer == permission_prompt(message, io)
    IN IF state = Prompt THEN
         IF answer = "grant" THEN
           Outcome([self EXCEPT !.read.granted_list = {},
                                !.read.global_state = Granted],
                   Granted, TRUE, message)
         ELSE IF answer = "deny" THEN
           Outcome([self EXCEPT !.read.global_state = Denied], Denied, TRUE, message)
         ELSE NoReturn(self, answer, message)
       ELSE Outcome(self, state, FALSE, "")

\* Mutant of request_write: a denied path is listed but the global state is kept.
request_write_deny_keeps_state(self, path, io) ==
  IF is_some(path) THEN
    LET rd == resolved_and_display_path(self, unwrap(path))
        resolved_path == rd[1]
        message == "Deno requests write access to \"" \o display(rd[2]) \o "\""
        state == query_write(self, Some(resolved_path))
        answer == permission_prompt(message, io)
    IN IF state = Prompt THEN
         IF answer = "grant" THEN
           Outcome([self EXCEPT !.write.granted_list =
                      {path_ \in @ : ~starts_with(path_, resolved_path)}
                        \cup {resolved_path}],
                   Granted, TRUE, message)
         ELSE IF answer = "deny" THEN
           Outcome([self EXCEPT !.write.denied_list =
                      {path_ \in @ : ~starts_with(resolved_path, path_)}
                        \cup {resolved_path}],
                   Denied, TRUE, message)
         ELSE NoReturn(self, answer, message)
       ELSE Outcome(self, state, FALSE, "")
  ELSE
    LET state == query_write(self, None)
        message == "Deno requests write access"
        answer == permission_prompt(message, io)
    IN IF state = Prompt THEN
         IF answer = "grant" THEN
           Outcome([self EXCEPT !.write.granted_list = {},
                                !.write.global_state = Granted],
                   Granted, TRUE, message)
         ELSE IF answer = "deny" THEN
           Outcome([self EXCEPT !.write.global_state = Denied], Denied, TRUE, message)
         ELSE NoReturn(self, answer, message)
       ELSE Outcome(self, state, FALSE, "")

\* Mutant of request_write: a grant does not prune the entries below the path.
request_write_grant_no_prune(self, path, io) ==
  IF is_some(path) THEN
    LET rd == resolved_and_display_path(self, unwrap(path))
        resolved_path == rd[1]
        message == "Deno requests write access to \"" \o display(rd[2]) \o "\""
        state == query_write(self, Some(resolved_path))
        answer == permission_prompt(message, io)
    IN IF state = Prompt THEN
         IF answer = "grant" THEN
           Outcome([self EXCEPT !.write.granted_list = @ \cup {resolved_path}],
                   Granted, TRUE, message)
         ELSE IF answer = "deny" THEN
           Outcome([self EXCEPT !.write.denied_list =
                      {path_ \in @ : ~starts_with(resolved_path, path_)}
                        \cup {resolved_path},
                                !.write.global_state = Denied],
                   Denied, TRUE, message)
         ELSE NoReturn(self, answer, message)
       ELSE Outcome(self, state, FALSE, "")
  ELSE
    LET state == query_write(self, None)
        message == "Deno requests write access"
        answer == permission_prompt(message, io)
    IN IF state = Prompt THEN
         IF answer = "grant" THEN
           Outcome([self EXCEPT !.write.granted_list = {},
                                !.write.global_state = Granted],
                   Granted, TRUE, message)
         ELSE IF answer = "deny" THEN
           Outcome([self EXCEPT !.write.global_state = Denied], Denied, TRUE, message)
         ELSE NoReturn(self, answer, message)
       ELSE Outcome(self, state, FALSE, "")

\* Permissions::request_write
request_write(self, path, io) ==
  IF is_some(path) THEN
    LET rd == resolved_and_display_path(self, unwrap(path))
        resolved_path == rd[1]
        message == "Deno requests write access to \"" \o display(rd[2]) \o "\""
        state == query_write(self, Some(resolved_path))
        answer == permission_prompt(message, io)
    IN IF state = Prompt THEN
         IF answer = "grant" THEN
           Outcome([self EXCEPT !.write.granted_list =
                      {path_ \in @ : ~starts_with(path_, resolved_path)}
                        \cup {resolved_path}],
                   Granted, TRUE, message)
         ELSE IF answer = "deny" THEN
           Outcome([self EXCEPT !.write.denied_list =
                      {path_ \in @ : ~starts_with(resolved_path, path_)}
                        \cup {resolved_path},
                                !.write.global_state = Denied],
                   Denied, TRUE, message)
         ELSE NoReturn(self, answer, message)
       ELSE Outcome(self, state, FALSE, "")
  ELSE
    LET state == query_write(self, None)
        message == "Deno requests write access"
        answer == permission_prompt(message, io)
    IN IF state = Prompt THEN
         IF answer = "grant" THEN
           Outcome([self EXCEPT !.write.granted_list = {},
                                !.write.global_state = Granted],
                   Granted, TRUE, message)
         ELSE IF answer = "deny" THEN
           Outcome([self EXCEPT !.write.global_state = Denied], Denied, TRUE, message)
         ELSE NoReturn(self, answer, message)
       ELSE Outcome(self, state, FALSE, "")

\* Permissions::request_net: ret is a Result
\* Mutant of request_net: a denied URL is listed but the global state is kept.
request_net_deny_keeps_state(self, url, io) ==
  IF is_some(url) THEN
    LET state == query_net_url(self, url)
        message == "Deno requests network access to \"" \o unwrap(url) \o "\""
        answer == permission_prompt(message, io)
    IN IF ~state.ok THEN Outcome(self, state, FALSE, "")
       ELSE IF state.val = Prompt THEN
         IF answer = "grant" THEN
           Outcome([self EXCEPT !.net.granted_list = @ \cup {unwrap(url)}],
                   Ok(Granted), TRUE, message)
         ELSE IF answer = "deny" THEN
           Outcome([self EXCEPT !.net.denied_list = @ \cup {unwrap(url)}],
                   Ok(Denied), TRUE, message)
         ELSE NoReturn(self, answer, message)
       ELSE Outcome(self, state, FALSE, "")
  ELSE
    LET state == query_net_url(self, None)
        message == "Deno requests network access"
        answer == permission_prompt(message, io)
    IN IF ~state.ok THEN Outcome(self, state, FALSE, "")
       ELSE IF state.val = Prompt THEN
         IF answer = "grant" THEN
           Outcome([self EXCEPT !.net.granted_list = {},
                                !.net.global_state = Granted],
                   Ok(Granted), TRUE, message)
         ELSE IF answer = "deny" THEN
           Outcome([self EXCEPT !.net.global_state = Denied], Ok(Denied), TRUE, message)
         ELSE NoReturn(self, answer, message)
       ELSE Outcome(self, state, FALSE, "")

\* Mutant of request_net: a URL that cannot be queried is put to the operator and
\* recorded as a denial before the error is returned.
request_net_error_after_prompt(self, url, io) ==
  IF is_some(url) THEN
    LET state == query_net_url(self, url)
        message == "Deno requests network access to \"" \o unwrap(url) \o "\""
        answer == permission_prompt(message, io)
    IN IF ~state.ok THEN Outcome([self EXCEPT !.net.global_state = Denied], state, TRUE, message)
       ELSE IF state.val = Prompt THEN
         IF answer = "grant" THEN
           Outcome([self EXCEPT !.net.granted_list = @ \cup {unwrap(url)}],
                   Ok(Granted), TRUE, message)
         ELSE IF answer = "deny" THEN
           Outcome([self EXCEPT !.net.denied_list = @ \cup {unwrap(url)},
                                !.net.global_state = Denied],
                   Ok(Denied), TRUE, message)
         ELSE NoReturn(self, answer, message)
       ELSE Outcome(self, state, FALSE, "")
  ELSE
    LET state == query_net_url(self, None)
        message == "Deno requests network access"
        answer == permission_prompt(message, io)
    IN IF ~state.ok THEN Outcome(self, state, FALSE, "")
       ELSE IF state.val = Prompt THEN
         IF answer = "grant" THEN
           Outcome([self EXCEPT !.net.granted_list = {},
                                !.net.global_state = Granted],
                   Ok(Granted), TRUE, message)
         ELSE IF answer = "deny" THEN
           Outcome([self EXCEPT !.net.global_state = Denied], Ok(Denied), TRUE, message)
         ELSE NoReturn(self, answer, message)
       ELSE Outcome(self, state, FALSE, "")

request_net(self, url, io) ==
  IF is_some(url) THEN
    LET state == query_net_url(self, url)
        message == "Deno requests network access to \"" \o unwrap(url) \o "\""
        answer == permission_prompt(message, io)
    IN IF ~state.ok THEN Outcome(self, state, FALSE, "")
       ELSE IF state.val = Prompt THEN
         IF answer = "grant" THEN
           Outcome([self EXCEPT !.net.granted_list = @ \cup {unwrap(url)}],
                   Ok(Granted), TRUE, message)
         ELSE IF answer = "deny" THEN
           Outcome([self EXCEPT !.net.denied_list = @ \cup {unwrap(url)},
                                !.net.global_state = Denied],
                   Ok(Denied), TRUE, message)
         ELSE NoReturn(self, answer, message)
       ELSE Outcome(self, state, FALSE, "")
  ELSE
    LET state == query_net_url(self, None)
        message == "Deno requests network access"
        answer == permission_prompt(message, io)
    IN IF ~state.ok THEN Outcome(self, state, FALSE, "")
       ELSE IF state.val = Prompt THEN
         IF answer = "grant" THEN
           Outcome([self EXCEPT !.net.granted_list = {},
                                !.net.global_state = Granted],
                   Ok(Granted), TRUE, message)
         ELSE IF answer = "deny" THEN
           Outcome([self EXCEPT !.net.global_state = Denied], Ok(Denied), TRUE, message)
         ELSE NoReturn(self, answer, message)
       ELSE Outcome(self, state, FALSE, "")

\* Mutant of request_scalar: a denial is returned but not recorded.
request_scalar_deny_not_recorded(self, field, message, io) ==
  LET answer == permission_prompt(message, io) IN
  IF self[field] = Prompt THEN
    IF answer = "grant" THEN
      Outcome([self EXCEPT ![field] = Granted], Granted, TRUE, message)
    ELSE IF answer = "deny" THEN
      Outcome(self, Denied, TRUE, message)
    ELSE NoReturn(self, answer, message)
  ELSE Outcome(self, self[field], FALSE, "")

\* The shared shape of request_env / request_run / request_plugin / request_hrtime
\* on the scalar field `field`.
request_scalar(self, field, message, io) ==
  LET answer == permission_prompt(message, io) IN
  IF self[field] = Prompt THEN
    IF answer = "grant" THEN
      Outcome([self EXCEPT ![field] = Granted], Granted, TRUE, message)
    ELSE IF answer = "deny" THEN
      Outcome([self EXCEPT ![field] = Denied], Denied, TRUE, message)
    ELSE NoReturn(self, answer, message)
  ELSE Outcome(self, self[field], FALSE, "")

\* Permissions::request_env
request_env(self, io) ==
  request_scalar(self, "env", "Deno requests access to environment variables", io)

\* Permissions::request_run
request_run(self, io) ==
  request_scalar(self, "run", "Deno requests to access to run a subprocess", io)

\* Permissions::request_plugin
request_plugin(self, io) ==
  request_scalar(self, "plugin", "Deno requests to open plugins", io)

\* Permissions::request_hrtime
request_hrtime(self, io) ==
  request_scalar(self, "hrtime", "Deno requests access to high precision time", io)

-----------------------------------------------------------------------------
(* revoke *)

\* Mutant of revoke_read: without a target the global state becomes Prompt,
\* whatever it was.
revoke_read_resets_denied(self, path) ==
  LET after ==
        IF is_some(path) THEN
          LET path__ == resolve_from_cwd(unwrap(path)) IN
          [self EXCEPT !.read.granted_list = {path_ \in @ : ~starts_with(path_, path__)}]
        ELSE
          [self EXCEPT !.read.granted_list = {}, !.read.global_state = Prompt]
  IN Outcome(after, query_read(after, path), FALSE, "")

\* Permissions::revoke_read
revoke_read(self, path) ==
  LET after ==
        IF is_some(path) THEN
          LET path__ == resolve_from_cwd(unwrap(path)) IN
          [self EXCEPT !.read.granted_list = {path_ \in @ : ~starts_with(path_, path__)}]
        ELSE
          [self EXCEPT !.read.granted_list = {},
                       !.read.global_state = IF @ = Granted THEN Prompt ELSE @]
  IN Outcome(after, query_read(after, path), FALSE, "")

\* Mutant of revoke_write: only the entry equal to the target is removed.
revoke_write_exact_entry(self, path) ==
  LET after ==
        IF is_some(path) THEN
          LET path__ == resolve_from_cwd(unwrap(path)) IN
          [self EXCEPT !.write.granted_list = @ \ {path__}]
        ELSE
          [self EXCEPT !.write.granted_list = {},
                       !.write.global_state = IF @ = Granted THEN Prompt ELSE @]
  IN Outcome(after, query_write(after, path), FALSE, "")

\* Permissions::revoke_write
revoke_write(self, path) ==
  LET after ==
        IF is_some(path) THEN
          LET path__ == resolve_from_cwd(unwrap(path)) IN
          [self EXCEPT !.write.granted_list = {path_ \in @ : ~starts_with(path_, path__)}]
        ELSE
          [self EXCEPT !.write.granted_list = {},
                       !.write.global_state = IF @ = Granted THEN Prompt ELSE @]
  IN Outcome(after, query_write(after, path), FALSE, "")

\* Mutant of revoke_net: the entries for the host of the URL are removed too.
revoke_net_by_host(self, url) ==
  LET after ==
        IF is_some(url) THEN
          LET parsed == Url_parse(unwrap(url))
              host == IF parsed.ok /\ is_some(parsed.val.host)
                        THEN {entry \in self.net.granted_list :
                                check_host_and_port_list(unwrap(parsed.val.host),
                                                         port_or_known_default(parsed.val),
                                                         {entry})}
                        ELSE {}
          IN [self EXCEPT !.net.granted_list = (@ \ {unwrap(url)}) \ host]
        ELSE
          [self EXCEPT !.net.granted_list = {},
                       !.net.global_state = IF @ = Granted THEN Prompt ELSE @]
  IN Outcome(after, query_net_url(after, url), FALSE, "")

\* Mutant of revoke_net: without a target the allow-list is kept.
revoke_net_keeps_list(self, url) ==
  LET after ==
        IF is_some(url) THEN
          [self EXCEPT !.net.granted_list = @ \ {unwrap(url)}]
        ELSE
          [self EXCEPT !.net.global_state = IF @ = Granted THEN Prompt ELSE @]
  IN Outcome(after, query_net_url(after, url), FALSE, "")

\* Mutant of revoke_net: without a target the global state becomes Prompt,
\* whatever it was.
revoke_net_resets_denied(self, url) ==
  LET after ==
        IF is_some(url) THEN
          [self EXCEPT !.net.granted_list = @ \ {unwrap(url)}]
        ELSE
          [self EXCEPT !.net.granted_list = {}, !.net.global_state = Prompt]
  IN Outcome(after, query_net_url(after, url), FALSE, "")

\* Permissions::revoke_net: ret is a Result
revoke_net(self, url) ==
  LET after ==
        IF is_some(url) THEN
          [self EXCEPT !.net.granted_list = @ \ {unwrap(url)}]
        ELSE
          [self EXCEPT !.net.granted_list = {},
                       !.net.global_state = IF @ = Granted THEN Prompt ELSE @]
  IN Outcome(after, query_net_url(after, url), FALSE, "")

\* Mutant of revoke_scalar: revoking one scalar class revokes the four of them.
revoke_scalar_all(self, field) ==
  LET after == [f \in DOMAIN self |->
                  IF f \in {"env", "run", "plugin", "hrtime"} /\ self[f] = Granted
                    THEN Prompt ELSE self[f]] IN
  Outcome(after, after[field], FALSE, "")

\* The shared shape of revoke_env / revoke_run / revoke_plugin / revoke_hrtime.
revoke_scalar(self, field) ==
  LET after == [self EXCEPT ![field] = IF @ = Granted THEN Prompt ELSE @] IN
  Outcome(after, after[field], FALSE, "")

\* Permissions::revoke_env
revoke_env(self) == revoke_scalar(self, "env")
\* Permissions::revoke_run
revoke_run(self) == revoke_scalar(self, "run")
\* Permissions::revoke_plugin
revoke_plugin(self) == revoke_scalar(self, "plugin")
\* Permissions::revoke_hrtime
revoke_hrtime(self) == revoke_scalar(self, "hrtime")


-----------------------------------------------------------------------------
(* Inputs *)

P_root == AbsPath(<<>>)
P_foo == AbsPath(<<"foo">>)
P_foo_bar == AbsPath(<<"foo", "bar">>)
P_foobar == AbsPath(<<"foobar">>)
P_rel_bar == RelPath(<<"bar">>)
P_dotted == AbsPath(<<"foo", "bar", "..", "bar", ".">>)

\* Paths as callers write them.
RawPaths == {P_root, P_foo, P_foo_bar, P_foobar, P_rel_bar, P_dotted}
PathArgs == {None} \cup {Some(path) : path \in RawPaths}

CwdSet == {P_foo, P_root}

\* The allow-list and the paths of tests::check_paths.
check_paths_allowlist ==
  {AbsPath(<<"a", "specific", "dir", "name">>), AbsPath(<<"a", "specific">>),
   AbsPath(<<"b", "c">>)}

CheckPaths ==
  {AbsPath(<<"a", "specific", "dir", "name">>), AbsPath(<<"a", "specific", "dir">>),
   AbsPath(<<"a", "specific", "dir", "name", "inner">>),
   AbsPath(<<"a", "specific", "other", "dir">>),
   AbsPath(<<"b", "c">>), AbsPath(<<"b", "c", "sub", "path">>),
   AbsPath(<<"b", "c", "sub", "path", "..", "path", ".">>),
   AbsPath(<<"b", "e">>), AbsPath(<<"a", "b">>)}

\* Paths given to the read-only verbs.
PurePaths == RawPaths \cup CheckPaths \cup {RelPath(<<"..", "foo">>)}
PurePathArgs == {None} \cup {Some(path) : path \in PurePaths}

UrlStrings == {"http://127.0.0.1:8000", "https://deno.land/std", "localhost:235", "deno.land"}
UrlArgs == {None} \cup {Some(url) : url \in UrlStrings}

\* <<host, port>> arguments of query_net / check_net.
HostPorts ==
  {<<"deno.land", Some(443)>>, <<"deno.land", Some(80)>>, <<"deno.land", None>>,
   <<"127.0.0.1", Some(8000)>>, <<"127.0.0.1", Some(3000)>>, <<"deno.lands", Some(443)>>}

\* The allow-list, hosts and URLs of tests::test_check_net.
test_check_net_allowlist ==
  {"localhost", "deno.land", "github.com:3000", "127.0.0.1", "172.16.0.2:8000",
   "www.github.com:443"}

NetTestHostPorts ==
  {<<"deno.land", Some(0)>>, <<"deno.land", Some(3000)>>,
   <<"deno.lands", Some(0)>>, <<"deno.lands", Some(3000)>>,
   <<"github.com", Some(3000)>>, <<"github.com", Some(0)>>, <<"github.com", Some(2000)>>,
   <<"github.net", Some(3000)>>, <<"www.github.com", Some(443)>>,
   <<"172.16.0.2", Some(8000)>>, <<"172.16.0.2", Some(6000)>>, <<"172.16.0.2", None>>}

NetTestUrls ==
  {"https://www.github.com:443/robots.txt", "https://www.github.com/robots.txt",
   "https://github.com:3000/denoland/deno", "https://github.com/denoland/deno",
   "https://github.com:2000/denoland/deno", "https://deno.lands/std/example/welcome.ts",
   "tcp://172.16.0.2"}

\* Hosts and URLs given to the read-only verbs.
PureHostPorts == HostPorts \cup NetTestHostPorts
PureUrlStrings == UrlStrings \cup NetTestUrls \cup {"file:/1.txt"}
PureUrlArgs == {None} \cup {Some(url) : url \in PureUrlStrings}

Terminal(stdin_tty, stderr_tty, input) ==
  [stdin_tty |-> stdin_tty, stderr_tty |-> stderr_tty, input |-> input]

\* The operator grants, denies (after an unrecognized answer), or there is no terminal.
PromptIO ==
  {Terminal(TRUE, TRUE, <<"g">>), Terminal(TRUE, TRUE, <<"x", "D">>),
   Terminal(FALSE, TRUE, <<"g">>)}

Flags(allow, read_allowlist, write_allowlist, net_allowlist) ==
  [allow_read |-> "read" \in allow, allow_write |-> "write" \in allow,
   allow_net |-> "net" \in allow, allow_env |-> "env" \in allow,
   allow_run |-> "run" \in allow, allow_plugin |-> "plugin" \in allow,
   allow_hrtime |-> "hrtime" \in allow,
   read_allowlist |-> read_allowlist, write_allowlist |-> write_allowlist,
   net_allowlist |-> net_allowlist]

\* The command lines the program is started with.
FlagsSet ==
  { Flags({}, {}, {}, {}),
    Flags({}, {P_foo, P_foo_bar, P_rel_bar}, {P_foo_bar}, {"deno.land", "127.0.0.1:8000"}),
    Flags({"read", "net", "env", "plugin"}, {}, {P_foo}, {"deno.land:443"}),
    Flags({"read", "write", "net", "env", "run", "plugin", "hrtime"}, {}, {}, {}) }

Scalars == {"env", "run", "plugin", "hrtime"}

\* The command line of tests::check_paths.
check_paths_flags == Flags({}, check_paths_allowlist, check_paths_allowlist, {})

\* Command lines that list net hosts only: the list of tests::test_check_net,
\* and each of two of its entries alone.
NetFlagsSet ==
  {Flags({}, {}, {}, net_allowlist) :
     net_allowlist \in {test_check_net_allowlist, {"www.github.com:443"},
                        {"github.com:3000"}}}

\* Child fields offered to fork for a path class whose parent field is `u`.
PathUnaryArgs(u) ==
  {UnaryPermission(g, G, D) :
     g \in PermissionState,
     G \in {u.granted_list, u.granted_list \cup {P_foo}, u.granted_list \ {P_foo}},
     D \in {u.denied_list, {}, u.denied_list \cup {P_foo_bar}}}

NetUnaryArgs(u) ==
  {UnaryPermission(g, G, D) :
     g \in PermissionState,
     G \in {u.granted_list, u.granted_list \cup {"deno.land"}, {}},
     D \in {u.denied_list, {}, u.denied_list \cup {"deno.land:443"}}}

AllOf(state) ==
  [read |-> UnaryPermission(state, {}, {}), write |-> UnaryPermission(state, {}, {}),
   net |-> UnaryPermission(state, {}, {}),
   env |-> state, run |-> state, plugin |-> state, hrtime |-> state]

\* The children offered to fork: the parent itself, the parent with one field
\* replaced, and a few values that differ from it in several fields.
ForkArgs(self) ==
  {self}
    \cup {[self EXCEPT !.read = u] : u \in PathUnaryArgs(self.read)}
    \cup {[self EXCEPT !.write = u] : u \in PathUnaryArgs(self.write)}
    \cup {[self EXCEPT !.net = u] : u \in NetUnaryArgs(self.net)}
    \cup {[self EXCEPT ![f] = state] : f \in Scalars, state \in PermissionState}
    \cup {AllOf(state) : state \in PermissionState}
    \cup {[AllOf(Prompt) EXCEPT !.plugin = Denied, !.hrtime = Denied],
          [AllOf(Granted) EXCEPT !.plugin = Denied, !.hrtime = Denied],
          [self EXCEPT !.read.global_state = Denied, !.write.global_state = Denied,
                       !.net.global_state = Denied, !.env = Denied]}

-----------------------------------------------------------------------------
(* The state machine *)

Call(op, arg, io, out) ==
  [op |-> op, arg |-> arg, io |-> io, prompted |-> out.prompted,
   message |-> out.message, ret |-> out.ret, pre |-> perms]

NoTerminal == Terminal(FALSE, FALSE, <<>>)

\* A single caller owns the value: there is no gate to pass.
NoGate == [holder |-> None, initial |-> None]

Init ==
  /\ cwd \in CwdSet
  /\ \E flags \in FlagsSet :
       /\ perms = from_flags(flags)
       /\ last = [op |-> "from_flags", arg |-> flags, io |-> NoTerminal, prompted |-> FALSE,
                  message |-> "", ret |-> Ok("unit"), pre |-> perms]
  /\ denials = {}
  /\ n = 0
  /\ gate = NoGate
  /\ callers = <<>>

\* The class whose concrete target this call saw the operator deny, if any.
DeniedClass(op, arg, out) ==
  IF /\ op \in {"request_read", "request_write", "request_net"}
     /\ is_some(arg) /\ out.prompted /\ out.ret = Ok(Denied)
    THEN {CASE op = "request_read" -> "read"
            [] op = "request_write" -> "write"
            [] op = "request_net" -> "net"}
    ELSE {}

\* A verb call that returns `out`; infallible verbs are recorded as Ok(verdict).
Step(op, arg, io, out) ==
  /\ n < MaxCalls
  /\ perms' = out.perms
  /\ last' = Call(op, arg, io, out)
  /\ denials' = denials \cup DeniedClass(op, arg, out)
  /\ n' = n + 1
  /\ UNCHANGED <<cwd, gate, callers>>

Wrap(out) == [out EXCEPT !.ret = IF @ \in PermissionState THEN Ok(@) ELSE @]

Call_request_read ==
  \E path \in PathArgs, io \in PromptIO :
    Step("request_read", path, io, Wrap(request_read(perms, path, io)))

Call_request_write ==
  \E path \in PathArgs, io \in PromptIO :
    Step("request_write", path, io, Wrap(request_write(perms, path, io)))

Call_request_net ==
  \E url \in UrlArgs, io \in PromptIO :
    Step("request_net", url, io, request_net(perms, url, io))

Call_request_env ==
  \E io \in PromptIO : Step("request_env", None, io, Wrap(request_env(perms, io)))

Call_request_run ==
  \E io \in PromptIO : Step("request_run", None, io, Wrap(request_run(perms, io)))

Call_request_plugin ==
  \E io \in PromptIO : Step("request_plugin", None, io, Wrap(request_plugin(perms, io)))

Call_request_hrtime ==
  \E io \in PromptIO : Step("request_hrtime", None, io, Wrap(request_hrtime(perms, io)))

Call_revoke_read ==
  \E path \in PathArgs : Step("revoke_read", path, NoTerminal, Wrap(revoke_read(perms, path)))

Call_revoke_write ==
  \E path \in PathArgs : Step("revoke_write", path, NoTerminal, Wrap(revoke_write(perms, path)))

Call_revoke_net ==
  \E url \in UrlArgs : Step("revoke_net", url, NoTerminal, revoke_net(perms, url))

Call_revoke_env == Step("revoke_env", None, NoTerminal, Wrap(revoke_env(perms)))
Call_revoke_run == Step("revoke_run", None, NoTerminal, Wrap(revoke_run(perms)))
Call_revoke_plugin == Step("revoke_plugin", None, NoTerminal, Wrap(revoke_plugin(perms)))
Call_revoke_hrtime == Step("revoke_hrtime", None, NoTerminal, Wrap(revoke_hrtime(perms)))

Next ==
  \/ Call_request_read
  \/ Call_request_write
  \/ Call_request_net
  \/ Call_request_env
  \/ Call_request_run
  \/ Call_request_plugin
  \/ Call_request_hrtime
  \/ Call_revoke_read
  \/ Call_revoke_write
  \/ Call_revoke_net
  \/ Call_revoke_env
  \/ Call_revoke_run
  \/ Call_revoke_plugin
  \/ Call_revoke_hrtime

Spec == Init /\ [][Next]_vars

-----------------------------------------------------------------------------
(* The read-only verbs, applied to any Permissions value a caller can build *)
(* (the fields are public and the type deserializes from JSON).             *)

Pure(ret) == Outcome(perms, ret, FALSE, "")

\* One read-only call on the value drawn by InitPure.
Apply(op, arg, io, out) ==
  /\ n = 0
  /\ perms' = out.perms
  /\ last' = Call(op, arg, io, out)
  /\ n' = 1
  /\ UNCHANGED <<cwd, denials, gate, callers>>

Call_query_read ==
  \E path \in PurePathArgs : Apply("query_read", path, NoTerminal, Pure(Ok(query_read(perms, path))))

Call_query_write ==
  \E path \in PurePathArgs : Apply("query_write", path, NoTerminal, Pure(Ok(query_write(perms, path))))

Call_query_net ==
  \E hp \in PureHostPorts : Apply("query_net", hp, NoTerminal, Pure(Ok(query_net(perms, hp[1], hp[2]))))

Call_query_net_url ==
  \E url \in PureUrlArgs : Apply("query_net_url", url, NoTerminal, Pure(query_net_url(perms, url)))

Call_query_env == Apply("query_env", None, NoTerminal, Pure(Ok(query_env(perms))))
Call_query_run == Apply("query_run", None, NoTerminal, Pure(Ok(query_run(perms))))
Call_query_plugin == Apply("query_plugin", None, NoTerminal, Pure(Ok(query_plugin(perms))))
Call_query_hrtime == Apply("query_hrtime", None, NoTerminal, Pure(Ok(query_hrtime(perms))))

Call_check_read ==
  \E path \in PurePaths : Apply("check_read", path, NoTerminal, Pure(check_read(perms, path)))

Call_check_read_blind ==
  \E path \in RawPaths, label \in {"CWD"} :
    Apply("check_read_blind", <<path, label>>, NoTerminal, Pure(check_read_blind(perms, path, label)))

Call_check_write ==
  \E path \in PurePaths : Apply("check_write", path, NoTerminal, Pure(check_write(perms, path)))

\* check_net takes a port, not an Option
Call_check_net ==
  \E hp \in {x \in PureHostPorts : is_some(x[2])} :
    Apply("check_net", hp, NoTerminal, Pure(check_net(perms, hp[1], unwrap(hp[2]))))

\* check_net_url takes a parsed Url
ParsedUrls == {Url_parse(url).val : url \in {u \in PureUrlStrings : Url_parse(u).ok}}

Call_check_net_url ==
  \E url \in ParsedUrls : Apply("check_net_url", url, NoTerminal, Pure(check_net_url(perms, url)))

Call_check_env == Apply("check_env", None, NoTerminal, Pure(check_env(perms)))
Call_check_run == Apply("check_run", None, NoTerminal, Pure(check_run(perms)))

Call_check_plugin ==
  \E path \in RawPaths : Apply("check_plugin", path, NoTerminal, Pure(check_plugin(perms, path)))

Call_check_hrtime == Apply("check_hrtime", None, NoTerminal, Pure(check_hrtime(perms)))

\* fork leaves the parent as it is; the result (the child, or the error) is in last.ret.
Call_fork ==
  \E child \in ForkArgs(perms) :
    Apply("fork", child, NoTerminal,
         Outcome(perms,
                 fork(perms, child.read, child.write, child.net, child.env, child.run,
                      child.plugin, child.hrtime),
                 FALSE, ""))

PermissionsValues ==
  LET bases == {AllOf(state) : state \in PermissionState}
                 \cup {from_flags(flags) : flags \in FlagsSet \cup {check_paths_flags}}
  IN bases
       \cup {[b EXCEPT !.read = u] : b \in bases, u \in PathUnaryArgs(AllOf(Prompt).read)}
       \cup {[b EXCEPT !.write = u] : b \in bases, u \in PathUnaryArgs(AllOf(Prompt).write)}
       \cup {[b EXCEPT !.net = u] : b \in bases, u \in NetUnaryArgs(AllOf(Prompt).net)}
       \cup {from_flags(flags) : flags \in NetFlagsSet}
       \cup {[AllOf(Prompt) EXCEPT !.read.granted_list = {P_root}],
             [AllOf(Prompt) EXCEPT !.write.granted_list = {P_root}]}

InitPure ==
  /\ cwd \in CwdSet
  /\ perms \in PermissionsValues
  /\ last = [op |-> "new", arg |-> None, io |-> NoTerminal, prompted |-> FALSE,
             message |-> "", ret |-> Ok("unit"), pre |-> perms]
  /\ denials = {}
  /\ n = 0
  /\ gate = NoGate
  /\ callers = <<>>

NextPure ==
  \/ Call_query_read
  \/ Call_query_write
  \/ Call_query_net
  \/ Call_query_net_url
  \/ Call_query_env
  \/ Call_query_run
  \/ Call_query_plugin
  \/ Call_query_hrtime
  \/ Call_check_read
  \/ Call_check_read_blind
  \/ Call_check_write
  \/ Call_check_net
  \/ Call_check_net_url
  \/ Call_check_env
  \/ Call_check_run
  \/ Call_check_plugin
  \/ Call_check_hrtime
  \/ Call_fork

SpecPure == InitPure /\ [][NextPure]_vars

-----------------------------------------------------------------------------
(* The mutating verbs in a forked context: the Permissions value is a child *)
(* that fork returned for a value built from the flags.                     *)

ForkedChildren(parent) ==
  {child \in ForkArgs(parent) :
     fork(parent, child.read, child.write, child.net, child.env, child.run,
          child.plugin, child.hrtime) = Ok(child)}

InitForked ==
  /\ cwd \in CwdSet
  /\ \E flags \in FlagsSet : perms \in ForkedChildren(from_flags(flags))
  /\ last = [op |-> "fork", arg |-> None, io |-> NoTerminal, prompted |-> FALSE,
             message |-> "", ret |-> Ok("unit"), pre |-> perms]
  /\ denials = {}
  /\ n = 0
  /\ gate = NoGate
  /\ callers = <<>>

SpecForked == InitForked /\ [][Next]_vars

-----------------------------------------------------------------------------
(* The prompt on its own: permission_prompt called once on a terminal whose *)
(* input is any sequence of at most MaxInput reads.                         *)

\* Longest input typed at one prompt.
MaxInput == 3

\* What one read_line call can give.
Reads == {"g", "G", "d", "D", "x", "\n", "ERR", ""}

RECURSIVE InputsOfLength(_)
InputsOfLength(k) ==
  IF k = 0 THEN {<<>>}
  ELSE {Append(input, ch) : input \in InputsOfLength(k - 1), ch \in Reads}

Inputs == UNION {InputsOfLength(k) : k \in 0..MaxInput}

Terminals ==
  {Terminal(stdin_tty, stderr_tty, input) :
     stdin_tty \in BOOLEAN, stderr_tty \in BOOLEAN, input \in Inputs}

PromptMessages == {"Deno requests read access", "Deno requests access to environment variables"}

\* The bool permission_prompt returns, or the way it does not return.
PromptResult(answer) ==
  IF answer \in {"grant", "deny"} THEN Ok(answer = "grant")
  ELSE Err(answer, "permission_prompt did not return")

Call_permission_prompt ==
  \E message \in PromptMessages :
    Apply("permission_prompt", message, last.io,
          Outcome(perms, PromptResult(permission_prompt(message, last.io)),
                  last.io.stdin_tty /\ last.io.stderr_tty, message))

InitPrompt ==
  /\ cwd = P_root
  /\ perms = from_flags(Flags({}, {}, {}, {}))
  /\ \E io \in Terminals :
       last = [op |-> "new", arg |-> None, io |-> io, prompted |-> FALSE,
               message |-> "", ret |-> Ok("unit"), pre |-> perms]
  /\ denials = {}
  /\ n = 0
  /\ gate = NoGate
  /\ callers = <<>>

NextPrompt == Call_permission_prompt

SpecPrompt == InitPrompt /\ [][NextPrompt]_vars

-----------------------------------------------------------------------------
(* Concurrent callers.  The process-wide value lives under one exclusive-   *)
(* access gate; a mutating verb call takes the gate, runs the statements of *)
(* its body one at a time, and gives the gate back when it returns.  A      *)
(* reader runs a query on the value when the gate lets it.                  *)

Callers == {"a", "b"}

\* The verb calls the concurrent callers make.
GateCalls ==
  { [op |-> "request_read", arg |-> Some(P_foo_bar)],
    [op |-> "request_read", arg |-> Some(P_foo)],
    [op |-> "request_read", arg |-> None],
    [op |-> "request_net", arg |-> Some("https://deno.land/std")],
    [op |-> "request_net", arg |-> None],
    [op |-> "request_env", arg |-> None],
    [op |-> "revoke_read", arg |-> Some(P_foo)],
    [op |-> "revoke_read", arg |-> None] }

\* The queries a reader makes.
ObservedPaths == {None, Some(P_foo_bar)}

\* A caller that has not called yet.
IdleCaller(self) ==
  [pc |-> "idle", op |-> "none", arg |-> None, io |-> NoTerminal, seq |-> 0,
   pre |-> self, post |-> self, state |-> Ok(Prompt), answer |-> "none",
   prompted |-> FALSE, message |-> "", ret |-> Ok("unit")]

\* The field of Permissions a verb works on.
FieldOf(op) ==
  CASE op \in {"request_read", "revoke_read"} -> "read"
    [] op = "request_net" -> "net"
    [] op = "request_env" -> "env"

\* The entry a targeted call puts into, or removes from, the lists.
TargetOf(self, op, arg) ==
  IF op = "request_read" THEN resolved_and_display_path(self, unwrap(arg))[1]
  ELSE IF op = "revoke_read" THEN resolve_from_cwd(unwrap(arg))
  ELSE unwrap(arg)

\* The text the operator is asked.
MessageOf(self, op, arg) ==
  CASE op = "request_read" ->
         IF is_some(arg)
           THEN "Deno requests read access to \""
                  \o display(resolved_and_display_path(self, unwrap(arg))[2]) \o "\""
           ELSE "Deno requests read access"
    [] op = "request_net" ->
         IF is_some(arg)
           THEN "Deno requests network access to \"" \o unwrap(arg) \o "\""
           ELSE "Deno requests network access"
    [] op = "request_env" -> "Deno requests access to environment variables"

\* The first statement of a verb's body.
FirstStatement(op, arg) ==
  IF op = "revoke_read"
    THEN IF is_some(arg) THEN "retain_granted" ELSE "clear_granted"
    ELSE "query"

\* The first statement of the branch taken on the operator's answer.
BranchOf(op, arg, answer) ==
  IF answer = "grant" THEN
    IF op = "request_env" THEN "set_state"
    ELSE IF ~is_some(arg) THEN "clear_granted"
    ELSE IF op = "request_read" THEN "retain_granted"
    ELSE "insert_granted"
  ELSE IF answer = "deny" THEN
    IF op = "request_env" \/ ~is_some(arg) THEN "set_state"
    ELSE IF op = "request_read" THEN "retain_denied"
    ELSE "insert_denied"
  ELSE "stuck"

\* Mutant of MayRead: a reader is let at the value at any time.
MayRead_any_time(g) == TRUE

\* A reader is let at the value only while no writer holds the gate.
MayRead(g) == g.holder = None

\* A writer is let at the value only while nobody holds the gate.
MayWrite(g) == g.holder = None

Holds(c, statement) ==
  /\ gate.holder = Some(c)
  /\ callers[c].pc = statement

Goto(c, statement) == [callers EXCEPT ![c].pc = statement]

\* The caller enters a verb call: it takes the gate for the whole call.
Acquire(c) ==
  /\ callers[c].pc = "idle"
  /\ MayWrite(gate)
  /\ \E call \in GateCalls :
     \E io \in IF call.op = "revoke_read" THEN {NoTerminal} ELSE PromptIO :
       callers' = [callers EXCEPT ![c] =
                     [@ EXCEPT !.pc = FirstStatement(call.op, call.arg),
                               !.op = call.op, !.arg = call.arg, !.io = io,
                               !.seq = n + 1, !.pre = perms]]
  /\ gate' = [gate EXCEPT !.holder = Some(c)]
  /\ UNCHANGED <<perms, cwd, last, denials, n>>

\* let state = self.query_X(..); anything but Prompt is returned as it is
QueryStep(c) ==
  /\ Holds(c, "query")
  /\ LET op == callers[c].op
         arg == callers[c].arg
         state == CASE op = "request_read" ->
                         Ok(query_read(perms, IF is_some(arg)
                                                THEN Some(TargetOf(perms, op, arg))
                                                ELSE None))
                    [] op = "request_net" -> query_net_url(perms, arg)
                    [] op = "request_env" -> Ok(perms.env)
     IN callers' = [callers EXCEPT ![c] =
                      IF state = Ok(Prompt)
                        THEN [@ EXCEPT !.pc = "prompt", !.state = state]
                        ELSE [@ EXCEPT !.pc = "return", !.state = state, !.ret = state]]
  /\ UNCHANGED <<perms, cwd, last, denials, n, gate>>

\* if permission_prompt(..) { .. } else { .. }
PromptStep(c) ==
  /\ Holds(c, "prompt")
  /\ LET message == MessageOf(perms, callers[c].op, callers[c].arg)
         answer == permission_prompt(message, callers[c].io)
     IN callers' = [callers EXCEPT ![c] =
                      [@ EXCEPT !.pc = BranchOf(callers[c].op, callers[c].arg, answer),
                                !.answer = answer, !.prompted = TRUE,
                                !.message = message]]
  /\ UNCHANGED <<perms, cwd, last, denials, n, gate>>

\* self.read.granted_list.retain(|path| !path.starts_with(&resolved_path));
RetainGranted(c) ==
  /\ Holds(c, "retain_granted")
  /\ LET target == TargetOf(perms, callers[c].op, callers[c].arg) IN
     perms' = [perms EXCEPT !.read.granted_list =
                 {path_ \in @ : ~starts_with(path_, target)}]
  /\ callers' = Goto(c, IF callers[c].op = "revoke_read" THEN "requery"
                        ELSE "insert_granted")
  /\ UNCHANGED <<cwd, last, denials, n, gate>>

\* self.X.granted_list.insert(..); return Granted;
InsertGranted(c) ==
  /\ Holds(c, "insert_granted")
  /\ LET target == TargetOf(perms, callers[c].op, callers[c].arg) IN
     perms' = [perms EXCEPT ![FieldOf(callers[c].op)].granted_list = @ \cup {target}]
  /\ callers' = [callers EXCEPT ![c] = [@ EXCEPT !.pc = "return", !.ret = Ok(Granted)]]
  /\ UNCHANGED <<cwd, last, denials, n, gate>>

\* self.read.denied_list.retain(|path| !resolved_path.starts_with(path));
RetainDenied(c) ==
  /\ Holds(c, "retain_denied")
  /\ LET target == TargetOf(perms, callers[c].op, callers[c].arg) IN
     perms' = [perms EXCEPT !.read.denied_list =
                 {path_ \in @ : ~starts_with(target, path_)}]
  /\ callers' = Goto(c, "insert_denied")
  /\ UNCHANGED <<cwd, last, denials, n, gate>>

\* self.X.denied_list.insert(..);
InsertDenied(c) ==
  /\ Holds(c, "insert_denied")
  /\ LET target == TargetOf(perms, callers[c].op, callers[c].arg) IN
     perms' = [perms EXCEPT ![FieldOf(callers[c].op)].denied_list = @ \cup {target}]
  /\ callers' = Goto(c, "set_state")
  /\ UNCHANGED <<cwd, last, denials, n, gate>>

\* self.X.granted_list.clear();
ClearGranted(c) ==
  /\ Holds(c, "clear_granted")
  /\ perms' = [perms EXCEPT ![FieldOf(callers[c].op)].granted_list = {}]
  /\ callers' = Goto(c, "set_state")
  /\ UNCHANGED <<cwd, last, denials, n, gate>>

\* The assignment of the state: global_state = Granted / Denied and the return of
\* that verdict in a request, the scalar itself in request_env (which returns
\* self.env), and the reset of Granted to Prompt in an untargeted revoke.
SetState(c) ==
  /\ Holds(c, "set_state")
  /\ LET op == callers[c].op
         verdict == IF callers[c].answer = "grant" THEN Granted ELSE Denied
     IN IF op = "revoke_read" THEN
          /\ perms' = [perms EXCEPT !.read.global_state =
                         IF @ = Granted THEN Prompt ELSE @]
          /\ callers' = Goto(c, "requery")
        ELSE IF op = "request_env" THEN
          /\ perms' = [perms EXCEPT !.env = verdict]
          /\ callers' = [callers EXCEPT ![c] =
                           [@ EXCEPT !.pc = "return", !.ret = Ok(perms'.env)]]
        ELSE
          /\ perms' = [perms EXCEPT ![FieldOf(op)].global_state = verdict]
          /\ callers' = [callers EXCEPT ![c] =
                           [@ EXCEPT !.pc = "return", !.ret = Ok(verdict)]]
  /\ UNCHANGED <<cwd, last, denials, n, gate>>

\* self.query_read(path), the value a revoke returns
Requery(c) ==
  /\ Holds(c, "requery")
  /\ callers' = [callers EXCEPT ![c] =
                   [@ EXCEPT !.pc = "return",
                             !.ret = Ok(query_read(perms, callers[c].arg))]]
  /\ UNCHANGED <<perms, cwd, last, denials, n, gate>>

\* The verb call returns: the caller gives the gate back.
Release(c) ==
  /\ Holds(c, "return")
  /\ gate' = [gate EXCEPT !.holder = None]
  /\ callers' = [callers EXCEPT ![c] = [@ EXCEPT !.pc = "done", !.post = perms]]
  /\ last' = [op |-> callers[c].op, arg |-> callers[c].arg, io |-> callers[c].io,
              prompted |-> callers[c].prompted, message |-> callers[c].message,
              ret |-> callers[c].ret, pre |-> callers[c].pre]
  /\ denials' = denials \cup DeniedClass(callers[c].op, callers[c].arg, callers[c])
  /\ n' = n + 1
  /\ UNCHANGED <<perms, cwd>>

\* A reader queries the value; what it reads from is recorded with the call.
Observe ==
  /\ MayRead(gate)
  /\ \E path \in ObservedPaths :
       last' = [op |-> "query_read", arg |-> path, io |-> NoTerminal,
                prompted |-> FALSE, message |-> "",
                ret |-> Ok(query_read(perms, path)), pre |-> perms]
  /\ UNCHANGED <<perms, cwd, denials, n, gate, callers>>

InitGate ==
  /\ cwd \in CwdSet
  /\ \E flags \in FlagsSet :
       /\ perms = from_flags(flags)
       /\ last = [op |-> "from_flags", arg |-> flags, io |-> NoTerminal, prompted |-> FALSE,
                  message |-> "", ret |-> Ok("unit"), pre |-> perms]
  /\ denials = {}
  /\ n = 0
  /\ gate = [holder |-> None, initial |-> perms]
  /\ callers = [c \in Callers |-> IdleCaller(perms)]

NextGate ==
  \/ \E c \in Callers : Acquire(c)
  \/ \E c \in Callers : QueryStep(c)
  \/ \E c \in Callers : PromptStep(c)
  \/ \E c \in Callers : RetainGranted(c)
  \/ \E c \in Callers : InsertGranted(c)
  \/ \E c \in Callers : RetainDenied(c)
  \/ \E c \in Callers : InsertDenied(c)
  \/ \E c \in Callers : ClearGranted(c)
  \/ \E c \in Callers : SetState(c)
  \/ \E c \in Callers : Requery(c)
  \/ \E c \in Callers : Release(c)
  \/ Observe

SpecGate == InitGate /\ [][NextGate]_vars

-----------------------------------------------------------------------------
(* Claims *)

\* The scalar fork predicate as section 4.4 states it.
ScalarDominates(parent, child) ==
  /\ ~(parent = Denied /\ child # Denied)
  /\ ~(parent = Prompt /\ child = Granted)

UnaryDominates(parent, child) ==
  /\ ScalarDominates(parent.global_state, child.global_state)
  /\ child.granted_list \subseteq parent.granted_list
  /\ parent.denied_list \subseteq child.denied_list

Dominates(parent, child) ==
  /\ UnaryDominates(parent.read, child.read)
  /\ UnaryDominates(parent.write, child.write)
  /\ UnaryDominates(parent.net, child.net)
  /\ \A f \in Scalars : ScalarDominates(parent[f], child[f])

\* C1: fork succeeds exactly when the parent dominates the child in each of the
\* seven classes (scalar predicate on the states, child allow-list within the
\* parent's, child deny-list containing the parent's); every failure is the
\* PermissionDenied error "Arguments escalate parent permissions".
C1_ForkIffDominates ==
  last.op = "fork" =>
    /\ last.ret.ok <=> Dominates(last.pre, last.arg)
    /\ ~last.ret.ok =>
         last.ret = Err("PermissionDenied", "Arguments escalate parent permissions")

\* A fork that succeeds into a child with a longer deny-list and a stricter state.
C1_Witness ==
  /\ last.op = "fork" /\ last.ret.ok
  /\ last.arg.read.denied_list # last.pre.read.denied_list
  /\ last.arg.read.global_state # last.pre.read.global_state

NoMoreThan(child_verdict, parent_verdict) ==
  /\ child_verdict = Granted => parent_verdict = Granted
  /\ parent_verdict = Denied => child_verdict = Denied

\* C2: a child returned by a successful fork has no more authority than its
\* parent: for every target of every class, Granted for the child implies Granted
\* for the parent, and Denied for the parent implies Denied for the child.
C2_ChildNoMoreAuthority ==
  (last.op = "fork" /\ last.ret.ok) =>
    LET parent == last.pre
        child == last.ret.val
    IN /\ \A path \in PathArgs :
            /\ NoMoreThan(query_read(child, path), query_read(parent, path))
            /\ NoMoreThan(query_write(child, path), query_write(parent, path))
       /\ \A hp \in HostPorts :
            NoMoreThan(query_net(child, hp[1], hp[2]), query_net(parent, hp[1], hp[2]))
       /\ \A url \in UrlArgs :
            query_net_url(parent, url).ok =>
              NoMoreThan(query_net_url(child, url).val, query_net_url(parent, url).val)
       /\ NoMoreThan(query_env(child), query_env(parent))
       /\ NoMoreThan(query_run(child), query_run(parent))
       /\ NoMoreThan(query_plugin(child), query_plugin(parent))
       /\ NoMoreThan(query_hrtime(child), query_hrtime(parent))

\* A successful fork into a different value, where the child is granted one path
\* by its allow-list and the parent denies another.
C2_Witness ==
  /\ last.op = "fork" /\ last.ret.ok /\ last.ret.val # last.pre
  /\ last.pre.read.global_state # Granted
  /\ \E path \in PathArgs : query_read(last.ret.val, path) = Granted
  /\ \E path \in PathArgs : query_read(last.pre, path) = Denied

\* `a` is `p` or an ancestor of it, component by component.
EqualOrAncestor(a, p) ==
  /\ a.abs = p.abs
  /\ Len(a.segs) <= Len(p.segs)
  /\ SubSeq(p.segs, 1, Len(a.segs)) = a.segs

\* The three-step query contract of section 4.3 for a path class.
ClaimedPathQuery(unary, path) ==
  LET given == is_some(path)
      p == IF given THEN resolve_from_cwd(unwrap(path)) ELSE P_root
  IN IF /\ unary.global_state = Denied
        /\ (~given \/ \E d \in unary.denied_list : EqualOrAncestor(p, d))
       THEN Denied
     ELSE IF \/ unary.global_state = Granted
             \/ (given /\ \E a \in unary.granted_list : EqualOrAncestor(a, p))
       THEN Granted
     ELSE Prompt

\* C3: query_read / query_write return Denied if the global state is Denied and
\* (no path is given or a deny-list entry is the path or below it); otherwise
\* Granted if the global state is Granted or an allow-list entry is the path or
\* an ancestor of it (by whole components); otherwise Prompt.
C3_PathQueryContract ==
  /\ last.op = "query_read" => last.ret = Ok(ClaimedPathQuery(perms.read, last.arg))
  /\ last.op = "query_write" => last.ret = Ok(ClaimedPathQuery(perms.write, last.arg))

\* The Denied rule wins over an allow-list entry that covers the path.
C3_Witness ==
  /\ last.op = "query_read" /\ is_some(last.arg)
  /\ last.ret = Ok(Denied)
  /\ \E a \in perms.read.granted_list : EqualOrAncestor(a, resolve_from_cwd(unwrap(last.arg)))

\* The three-step contract applied to the net class, as C4 states it.
ClaimedNetQuery(unary, host, port) ==
  IF /\ unary.global_state = Denied
     /\ check_host_and_port_list(host, port, unary.denied_list)
    THEN Denied
  ELSE IF \/ unary.global_state = Granted
          \/ check_host_and_port_list(host, port, unary.granted_list)
    THEN Granted
  ELSE Prompt

\* C4: query_net follows the same three-step contract as read and write: Denied
\* only if the global state is Denied and the deny-list matches; so a Denied
\* global state with an allow-list match and no deny-list match is Granted.
C4_NetQueryThreeStep ==
  \A hp \in HostPorts :
    query_net(perms, hp[1], hp[2]) = ClaimedNetQuery(perms.net, hp[1], hp[2])

CheckAgrees(ret, verdict) ==
  /\ ret.ok <=> verdict = Granted
  /\ ~ret.ok => ret.kind = "PermissionDenied"

\* C5: check_X succeeds exactly when the query for the same target returns
\* Granted; for Prompt and Denied it returns a PermissionDenied error, and it
\* never asks the operator.
C5_CheckIffGranted ==
  /\ last.op = "check_read" =>
       CheckAgrees(last.ret, query_read(perms, Some(last.arg)))
  /\ last.op = "check_read_blind" =>
       CheckAgrees(last.ret, query_read(perms, Some(last.arg[1])))
  /\ last.op = "check_write" =>
       CheckAgrees(last.ret, query_write(perms, Some(last.arg)))
  /\ last.op = "check_net" =>
       CheckAgrees(last.ret, query_net(perms, last.arg[1], last.arg[2]))
  /\ last.op = "check_net_url" =>
       \A url \in UrlStrings :
         (/\ Url_parse(url).ok
          /\ Url_parse(url).val = last.arg
          /\ query_net_url(perms, Some(url)).ok)
           => CheckAgrees(last.ret, query_net_url(perms, Some(url)).val)
  /\ last.op = "check_env" => CheckAgrees(last.ret, query_env(perms))
  /\ last.op = "check_run" => CheckAgrees(last.ret, query_run(perms))
  /\ last.op = "check_plugin" => CheckAgrees(last.ret, query_plugin(perms))
  /\ last.op = "check_hrtime" => CheckAgrees(last.ret, query_hrtime(perms))
  /\ last.op \in {"check_read", "check_read_blind", "check_write", "check_net",
                  "check_net_url", "check_env", "check_run", "check_plugin",
                  "check_hrtime"} => ~last.prompted /\ perms = last.pre

\* A check that fails on a Prompt verdict.
C5_Witness ==
  /\ last.op = "check_write" /\ ~last.ret.ok
  /\ query_write(perms, Some(last.arg)) = Prompt

\* `q` is `p` or below it.
EqualOrBelow(q, p) == EqualOrAncestor(p, q)
StrictlyBelow(q, p) == EqualOrAncestor(p, q) /\ q # p

\* C6: whenever request_read(P) or request_write(P) returns Granted, the check
\* of every path equal to P or below P succeeds right after it.
C6_GrantedRequestCoversSubtree ==
  /\ (last.op = "request_read" /\ is_some(last.arg) /\ last.ret = Ok(Granted)) =>
       \A q \in RawPaths :
         EqualOrBelow(resolve_from_cwd(q), resolve_from_cwd(unwrap(last.arg)))
           => check_read(perms, q).ok
  /\ (last.op = "request_write" /\ is_some(last.arg) /\ last.ret = Ok(Granted)) =>
       \A q \in RawPaths :
         EqualOrBelow(resolve_from_cwd(q), resolve_from_cwd(unwrap(last.arg)))
           => check_write(perms, q).ok

\* The operator grants a path with a path below it, after having denied another.
C6_Witness ==
  /\ last.op = "request_read" /\ is_some(last.arg)
  /\ last.prompted /\ last.ret = Ok(Granted)
  /\ perms.read.global_state = Denied
  /\ \E q \in RawPaths :
       StrictlyBelow(resolve_from_cwd(q), resolve_from_cwd(unwrap(last.arg)))

\* C7: after request_read(P) / request_write(P) is answered deny and returns
\* Denied, the class's global state is Denied, P is in its deny-list, the
\* untargeted query returns Denied and the check of P fails with PermissionDenied.
C7_DenialRecorded ==
  /\ (last.op = "request_read" /\ is_some(last.arg) /\ last.prompted
        /\ last.ret = Ok(Denied)) =>
       /\ perms.read.global_state = Denied
       /\ resolve_from_cwd(unwrap(last.arg)) \in perms.read.denied_list
       /\ query_read(perms, None) = Denied
       /\ ~check_read(perms, unwrap(last.arg)).ok
       /\ check_read(perms, unwrap(last.arg)).kind = "PermissionDenied"
  /\ (last.op = "request_write" /\ is_some(last.arg) /\ last.prompted
        /\ last.ret = Ok(Denied)) =>
       /\ perms.write.global_state = Denied
       /\ resolve_from_cwd(unwrap(last.arg)) \in perms.write.denied_list
       /\ query_write(perms, None) = Denied
       /\ ~check_write(perms, unwrap(last.arg)).ok
       /\ check_write(perms, unwrap(last.arg)).kind = "PermissionDenied"

\* A second denial, which prunes an entry of the deny-list.
C7_Witness ==
  /\ last.op = "request_write" /\ is_some(last.arg)
  /\ last.prompted /\ last.ret = Ok(Denied)
  /\ permission_prompt(last.message, last.io) = "deny"
  /\ ~(last.pre.write.denied_list \subseteq perms.write.denied_list)

\* Neither list matches the path / the host and port.
PathUnmatched(unary, p) ==
  /\ ~check_path_allowlist(p, unary.granted_list)
  /\ ~check_path_blocklist(p, unary.denied_list)

HostUnmatched(unary, host, port) ==
  /\ ~check_host_and_port_list(host, port, unary.granted_list)
  /\ ~check_host_and_port_list(host, port, unary.denied_list)

\* C8 as stated: once the operator has denied a concrete target on read, write or
\* net, every target that matches neither list queries Denied.
C8_DefaultDenying ==
  /\ "read" \in denials =>
       \A q \in RawPaths :
         PathUnmatched(perms.read, resolve_from_cwd(q)) => query_read(perms, Some(q)) = Denied
  /\ "write" \in denials =>
       \A q \in RawPaths :
         PathUnmatched(perms.write, resolve_from_cwd(q)) => query_write(perms, Some(q)) = Denied
  /\ "net" \in denials =>
       \A hp \in HostPorts :
         HostUnmatched(perms.net, hp[1], hp[2]) => query_net(perms, hp[1], hp[2]) = Denied

\* C8 (amended): once the operator has denied a concrete target on read, write or
\* net, that class's global state is Denied, its untargeted query returns Denied
\* and an untargeted request returns Denied without asking; on net every host
\* and port then queries Denied, while on read and write a path that matches
\* neither list queries Prompt, so that a request for it asks the operator.
C8_AfterDenial ==
  /\ "read" \in denials =>
       /\ perms.read.global_state = Denied
       /\ query_read(perms, None) = Denied
       /\ \A io \in PromptIO :
            request_read(perms, None, io) = Outcome(perms, Denied, FALSE, "")
       /\ \A q \in RawPaths :
            PathUnmatched(perms.read, resolve_from_cwd(q)) =>
              /\ query_read(perms, Some(q)) = Prompt
              /\ \A io \in PromptIO : request_read(perms, Some(q), io).prompted
  /\ "write" \in denials =>
       /\ perms.write.global_state = Denied
       /\ query_write(perms, None) = Denied
       /\ \A io \in PromptIO :
            request_write(perms, None, io) = Outcome(perms, Denied, FALSE, "")
       /\ \A q \in RawPaths :
            PathUnmatched(perms.write, resolve_from_cwd(q)) =>
              /\ query_write(perms, Some(q)) = Prompt
              /\ \A io \in PromptIO : request_write(perms, Some(q), io).prompted
  /\ "net" \in denials =>
       /\ perms.net.global_state = Denied
       /\ query_net_url(perms, None) = Ok(Denied)
       /\ \A io \in PromptIO :
            request_net(perms, None, io) = Outcome(perms, Ok(Denied), FALSE, "")
       /\ \A hp \in HostPorts : query_net(perms, hp[1], hp[2]) = Denied

\* After a denial on write, the operator is asked about another path.
C8_Witness ==
  /\ "write" \in denials
  /\ last.op = "request_write" /\ is_some(last.arg) /\ last.prompted
  /\ last.pre.write.denied_list # {}
  /\ PathUnmatched(last.pre.write, resolve_from_cwd(unwrap(last.arg)))

ReturnedUnchanged(verdict) ==
  /\ last.ret = Ok(verdict)
  /\ ~last.prompted
  /\ perms = last.pre

\* C10: when the query for the requested target is not Prompt, request_X returns
\* that verdict, does not ask the operator (the outcome is the same for every
\* answer) and leaves the Permissions value unchanged.
C10_SettledRequestIsNoOp ==
  /\ (last.op = "request_read" /\ query_read(last.pre, last.arg) # Prompt) =>
       /\ ReturnedUnchanged(query_read(last.pre, last.arg))
       /\ \A io \in PromptIO :
            request_read(last.pre, last.arg, io) = request_read(last.pre, last.arg, last.io)
  /\ (last.op = "request_write" /\ query_write(last.pre, last.arg) # Prompt) =>
       /\ ReturnedUnchanged(query_write(last.pre, last.arg))
       /\ \A io \in PromptIO :
            request_write(last.pre, last.arg, io) = request_write(last.pre, last.arg, last.io)
  /\ (last.op = "request_net" /\ query_net_url(last.pre, last.arg).ok
        /\ query_net_url(last.pre, last.arg).val # Prompt) =>
       /\ ReturnedUnchanged(query_net_url(last.pre, last.arg).val)
       /\ \A io \in PromptIO :
            request_net(last.pre, last.arg, io) = request_net(last.pre, last.arg, last.io)
  /\ (last.op = "request_env" /\ query_env(last.pre) # Prompt) =>
       ReturnedUnchanged(query_env(last.pre))
  /\ (last.op = "request_run" /\ query_run(last.pre) # Prompt) =>
       ReturnedUnchanged(query_run(last.pre))
  /\ (last.op = "request_plugin" /\ query_plugin(last.pre) # Prompt) =>
       ReturnedUnchanged(query_plugin(last.pre))
  /\ (last.op = "request_hrtime" /\ query_hrtime(last.pre) # Prompt) =>
       ReturnedUnchanged(query_hrtime(last.pre))

\* /foo is in the allow-list; request_read(/foo/bar) with the operator set to
\* deny returns Granted.
C10_Witness ==
  /\ last.op = "request_read" /\ last.arg = Some(P_foo_bar)
  /\ permission_prompt("", last.io) = "deny"
  /\ last.pre.read = UnaryPermission(Prompt, {P_foo}, {})
  /\ last.ret = Ok(Granted)

\* C11 as stated: after request_net(Some(U)) is answered grant and returns
\* Granted, query_net_url(Some(U)) returns Granted and a repeated
\* request_net(Some(U)) returns Granted without asking, whatever the answer.
C11_NetGrantEffective ==
  (last.op = "request_net" /\ is_some(last.arg) /\ last.prompted
     /\ last.ret = Ok(Granted)) =>
    /\ query_net_url(perms, last.arg) = Ok(Granted)
    /\ \A io \in PromptIO :
         request_net(perms, last.arg, io) = Outcome(perms, Ok(Granted), FALSE, "")

\* The states, ordered by how much they permit.
Rank(state) == CASE state = Granted -> 2 [] state = Prompt -> 1 [] state = Denied -> 0

IsRevoke(op) ==
  op \in {"revoke_read", "revoke_write", "revoke_net", "revoke_env", "revoke_run",
          "revoke_plugin", "revoke_hrtime"}

\* No verdict of a query on `after` permits more than the same query on `before`.
QueriesNoMorePermissive(before, after) ==
  /\ \A path \in PathArgs :
       /\ Rank(query_read(after, path)) <= Rank(query_read(before, path))
       /\ Rank(query_write(after, path)) <= Rank(query_write(before, path))
  /\ \A hp \in HostPorts :
       Rank(query_net(after, hp[1], hp[2])) <= Rank(query_net(before, hp[1], hp[2]))
  /\ \A url \in UrlArgs :
       query_net_url(before, url).ok =>
         /\ query_net_url(after, url).ok
         /\ Rank(query_net_url(after, url).val) <= Rank(query_net_url(before, url).val)
  /\ Rank(query_env(after)) <= Rank(query_env(before))
  /\ Rank(query_run(after)) <= Rank(query_run(before))
  /\ Rank(query_plugin(after)) <= Rank(query_plugin(before))
  /\ Rank(query_hrtime(after)) <= Rank(query_hrtime(before))

\* C12: after any revoke_X call, with or without a target, no query verdict is
\* more permissive than before the call, and no global state or scalar state
\* has moved toward Granted.
C12_RevokeMonotone ==
  IsRevoke(last.op) =>
    /\ QueriesNoMorePermissive(last.pre, perms)
    /\ Rank(perms.read.global_state) <= Rank(last.pre.read.global_state)
    /\ Rank(perms.write.global_state) <= Rank(last.pre.write.global_state)
    /\ Rank(perms.net.global_state) <= Rank(last.pre.net.global_state)
    /\ \A f \in Scalars : Rank(perms[f]) <= Rank(last.pre[f])

\* A revoke with a target, on a class the operator has denied something on,
\* takes a path from Granted to a lower verdict.
C12_Witness ==
  /\ last.op = "revoke_read" /\ is_some(last.arg)
  /\ last.pre.read.global_state = Denied
  /\ \E path \in PathArgs :
       Rank(query_read(perms, path)) < Rank(query_read(last.pre, path))

\* What the claim says revoke_X(Some(P)) leaves of the unary permission `before`.
RevokedBelow(before, p) ==
  [before EXCEPT !.granted_list = {a \in @ : ~EqualOrBelow(a, p)}]

RevokedAll(before) ==
  [before EXCEPT !.granted_list = {},
                 !.global_state = IF @ = Granted THEN Prompt ELSE @]

\* C14: revoke_read(None), revoke_write(None) and revoke_net(None) empty the
\* allow-list, turn a Granted global state into Prompt and leave Prompt and Denied
\* as they are, keep the deny-list, and return the untargeted verdict of the new
\* value; afterwards no target of the class queries Granted.
C14_RevokeAll ==
  /\ (last.op = "revoke_read" /\ ~is_some(last.arg)) =>
       /\ perms = [last.pre EXCEPT !.read = RevokedAll(@)]
       /\ last.ret = Ok(query_read(perms, None))
       /\ \A path \in PathArgs : query_read(perms, path) # Granted
  /\ (last.op = "revoke_write" /\ ~is_some(last.arg)) =>
       /\ perms = [last.pre EXCEPT !.write = RevokedAll(@)]
       /\ last.ret = Ok(query_write(perms, None))
       /\ \A path \in PathArgs : query_write(perms, path) # Granted
  /\ (last.op = "revoke_net" /\ ~is_some(last.arg)) =>
       /\ perms = [last.pre EXCEPT !.net = RevokedAll(@)]
       /\ last.ret = query_net_url(perms, None)
       /\ \A hp \in HostPorts : query_net(perms, hp[1], hp[2]) # Granted
       /\ \A url \in UrlArgs : query_net_url(perms, url) # Ok(Granted)

\* revoke_net(None) on a Granted class with a listed host.
C14_Witness ==
  /\ last.op = "revoke_net" /\ ~is_some(last.arg)
  /\ last.pre.net.global_state = Granted
  /\ last.pre.net.granted_list # {}
  /\ last.ret = Ok(Prompt)

\* The request verb and the revoke verb of the scalar class `f`.
RequestOf(f, self, io) ==
  CASE f = "env" -> request_env(self, io)
    [] f = "run" -> request_run(self, io)
    [] f = "plugin" -> request_plugin(self, io)
    [] f = "hrtime" -> request_hrtime(self, io)

RevokeOf(f, self) ==
  CASE f = "env" -> revoke_env(self)
    [] f = "run" -> revoke_run(self)
    [] f = "plugin" -> revoke_plugin(self)
    [] f = "hrtime" -> revoke_hrtime(self)

\* C15: for each scalar class, request_X changes the state only when it is
\* Prompt (to Granted when the operator grants, to Denied when the operator
\* denies) and returns the resulting state; revoke_X changes the state only when
\* it is Granted (to Prompt) and returns the resulting state; neither touches
\* another field, and repeating the call changes nothing whatever the answer.
C15_ScalarTransitions ==
  \A f \in Scalars :
    /\ (last.op = "request_" \o f) =>
         /\ perms = [last.pre EXCEPT ![f] =
                       IF @ # Prompt THEN @
                       ELSE IF permission_prompt(last.message, last.io) = "grant"
                         THEN Granted ELSE Denied]
         /\ last.ret = Ok(perms[f])
         /\ last.prompted <=> (last.pre[f] = Prompt)
         /\ \A io \in PromptIO : RequestOf(f, perms, io) = Outcome(perms, perms[f], FALSE, "")
    /\ (last.op = "revoke_" \o f) =>
         /\ perms = [last.pre EXCEPT ![f] = IF @ = Granted THEN Prompt ELSE @]
         /\ last.ret = Ok(perms[f])
         /\ RevokeOf(f, perms) = Outcome(perms, perms[f], FALSE, "")

\* On the second call the operator, at a terminal, denies run.
C15_Witness ==
  /\ last.op = "request_run" /\ last.prompted
  /\ last.io.stdin_tty /\ permission_prompt(last.message, last.io) = "deny"
  /\ last.ret = Ok(Denied) /\ perms.run = Denied
  /\ n = 2

\* What the claim says an operator grant of request_X(None) leaves of `before`.
GrantedAll(before) == [before EXCEPT !.granted_list = {}, !.global_state = Granted]

\* C16: when the untargeted query is Prompt, request_X(None) on read, write or
\* net, answered grant, empties the allow-list, sets the global state to Granted,
\* keeps the deny-list and returns Granted, after which every target of the class
\* queries Granted; answered deny, it sets the global state to Denied, keeps both
\* lists and returns Denied.  When the global state is already Denied it returns
\* Denied even if the operator would grant.
C16_UntargetedRequest ==
  /\ (last.op = "request_read" /\ ~is_some(last.arg)) =>
       /\ (query_read(last.pre, None) = Prompt
             /\ permission_prompt(last.message, last.io) = "grant") =>
            /\ perms = [last.pre EXCEPT !.read = GrantedAll(@)]
            /\ last.ret = Ok(Granted)
            /\ \A path \in PathArgs : query_read(perms, path) = Granted
       /\ (query_read(last.pre, None) = Prompt
             /\ permission_prompt(last.message, last.io) = "deny") =>
            /\ perms = [last.pre EXCEPT !.read.global_state = Denied]
            /\ last.ret = Ok(Denied)
       /\ last.pre.read.global_state = Denied =>
            \A io \in PromptIO : request_read(last.pre, None, io).ret = Denied
  /\ (last.op = "request_write" /\ ~is_some(last.arg)) =>
       /\ (query_write(last.pre, None) = Prompt
             /\ permission_prompt(last.message, last.io) = "grant") =>
            /\ perms = [last.pre EXCEPT !.write = GrantedAll(@)]
            /\ last.ret = Ok(Granted)
            /\ \A path \in PathArgs : query_write(perms, path) = Granted
       /\ (query_write(last.pre, None) = Prompt
             /\ permission_prompt(last.message, last.io) = "deny") =>
            /\ perms = [last.pre EXCEPT !.write.global_state = Denied]
            /\ last.ret = Ok(Denied)
       /\ last.pre.write.global_state = Denied =>
            \A io \in PromptIO : request_write(last.pre, None, io).ret = Denied
  /\ (last.op = "request_net" /\ ~is_some(last.arg)) =>
       /\ (query_net_url(last.pre, None) = Ok(Prompt)
             /\ permission_prompt(last.message, last.io) = "grant") =>
            /\ perms = [last.pre EXCEPT !.net = GrantedAll(@)]
            /\ last.ret = Ok(Granted)
            /\ \A hp \in HostPorts : query_net(perms, hp[1], hp[2]) = Granted
            /\ \A url \in UrlArgs :
                 query_net_url(perms, url).ok => query_net_url(perms, url) = Ok(Granted)
       /\ (query_net_url(last.pre, None) = Ok(Prompt)
             /\ permission_prompt(last.message, last.io) = "deny") =>
            /\ perms = [last.pre EXCEPT !.net.global_state = Denied]
            /\ last.ret = Ok(Denied)
       /\ last.pre.net.global_state = Denied =>
            \A io \in PromptIO : request_net(last.pre, None, io).ret = Ok(Denied)

\* parent.fork(the seven fields of child)
ForkOf(parent, child) ==
  fork(parent, child.read, child.write, child.net, child.env, child.run,
       child.plugin, child.hrtime)

\* C17: the fork relation is a preorder.  Every value forks into its own seven
\* fields; and when A.fork(fields of B) has succeeded, every C that
\* B.fork(fields of C) accepts is accepted by A.fork(fields of C).
C17_ForkPreorder ==
  /\ ForkOf(perms, perms).ok
  /\ (last.op = "fork" /\ last.ret.ok) =>
       LET A == last.pre
           B == last.ret.val
       IN /\ ForkOf(B, B).ok
          /\ \A C \in ForkArgs(B) : ForkOf(B, C).ok => ForkOf(A, C).ok

\* A has forked into a different B, and B accepts a C different from both and
\* refuses another.
C17_Witness ==
  /\ last.op = "fork" /\ last.ret.ok
  /\ last.ret.val # last.pre
  /\ \E C \in ForkArgs(last.ret.val) :
       C # last.ret.val /\ C # last.pre /\ ForkOf(last.ret.val, C).ok
  /\ \E C \in ForkArgs(last.ret.val) : ~ForkOf(last.ret.val, C).ok

\* C18: a successful fork returns the Permissions value made of exactly the seven
\* arguments, a failed fork returns the escalation error, and in both cases the
\* parent value is what it was before the call.
C18_ForkMaterializesArguments ==
  (last.op = "fork") =>
    /\ perms = last.pre
    /\ last.ret.ok => last.ret = Ok(last.arg)
    /\ ~last.ret.ok => last.ret = permission_escalation_error

\* A successful fork whose child has a smaller read allow-list and a larger read
\* deny-list than the parent.
C18_Witness ==
  /\ last.op = "fork" /\ last.ret.ok
  /\ last.arg.read.granted_list # last.pre.read.granted_list
  /\ last.arg.read.granted_list \subseteq last.pre.read.granted_list
  /\ last.arg.read.denied_list # last.pre.read.denied_list

\* Two paths with the same cwd-resolved, lexically normalized form.
SameForm(p, q) == resolve_from_cwd(p) = resolve_from_cwd(q)

\* `p` resolves to an entry of the allow-list of tests::check_paths or below one.
InCheckPathsAllowlist(p) ==
  \E entry \in check_paths_allowlist : EqualOrBelow(resolve_from_cwd(p), entry)

\* C19: query_read, check_read, query_write and check_write give the same verdict
\* for any two paths with the same cwd-resolved normalized form; and with the
\* allow-list {/a/specific/dir/name, /a/specific, /b/c} under a Prompt global
\* state, exactly the paths equal to or below an entry are allowed, among them
\* /b/c/sub/path/../path/. , while /b/e and /a/b are refused.
C19_NormalizedPathDecides ==
  /\ (last.op = "query_read" /\ is_some(last.arg)) =>
       \A q \in PurePaths :
         SameForm(unwrap(last.arg), q) => last.ret = Ok(query_read(perms, Some(q)))
  /\ (last.op = "query_write" /\ is_some(last.arg)) =>
       \A q \in PurePaths :
         SameForm(unwrap(last.arg), q) => last.ret = Ok(query_write(perms, Some(q)))
  /\ (last.op = "check_read") =>
       \A q \in PurePaths :
         SameForm(last.arg, q) => last.ret.ok = check_read(perms, q).ok
  /\ (last.op = "check_write") =>
       \A q \in PurePaths :
         SameForm(last.arg, q) => last.ret.ok = check_write(perms, q).ok
  /\ (perms = from_flags(check_paths_flags)) =>
       /\ (last.op \in {"query_read", "query_write"} /\ is_some(last.arg)) =>
            /\ (last.ret = Ok(Granted)) <=> InCheckPathsAllowlist(unwrap(last.arg))
            /\ last.ret \in {Ok(Granted), Ok(Prompt)}
       /\ (last.op \in {"check_read", "check_write"}) =>
            /\ last.ret.ok <=> InCheckPathsAllowlist(last.arg)
            /\ last.arg = AbsPath(<<"b", "c", "sub", "path", "..", "path", ".">>) => last.ret.ok
            /\ last.arg \in {AbsPath(<<"b", "e">>), AbsPath(<<"a", "b">>)} =>
                 /\ ~last.ret.ok
                 /\ last.ret.kind = "PermissionDenied"

\* check_write of /b/c/sub/path/../path/. succeeds under the allow-list of
\* tests::check_paths.
C19_Witness ==
  /\ perms = from_flags(check_paths_flags)
  /\ last.op = "check_write"
  /\ last.arg = AbsPath(<<"b", "c", "sub", "path", "..", "path", ".">>)
  /\ last.ret.ok
  /\ \E q \in PurePaths : q # last.arg /\ SameForm(last.arg, q)

\* The value built from a command line that lists only `net_allowlist`.
NetOnly(net_allowlist) == from_flags(Flags({}, {}, {}, net_allowlist))

\* The port the claim says a URL is matched with.
EffectivePort(url) ==
  IF is_some(url.port) THEN url.port
  ELSE IF url.scheme = "https" THEN Some(443)
  ELSE IF url.scheme = "http" THEN Some(80)
  ELSE None

\* The hosts and ports that the allow-list of tests::test_check_net lets through.
AllowedByTestList ==
  {<<"deno.land", Some(443)>>, <<"deno.land", Some(80)>>, <<"deno.land", Some(0)>>,
   <<"deno.land", Some(3000)>>, <<"127.0.0.1", Some(8000)>>, <<"127.0.0.1", Some(3000)>>,
   <<"github.com", Some(3000)>>, <<"www.github.com", Some(443)>>,
   <<"172.16.0.2", Some(8000)>>}

\* C20: under a Prompt global state a host and port are granted iff the allow-list
\* holds the bare host or the literal "host:port" (deno.lands is not deno.land;
\* github.com:3000 does not allow github.com on port 2000 or 0); check_net_url
\* matches with the port written in the URL, or else with the scheme's known
\* default port: with only www.github.com:443 listed an https URL to
\* www.github.com passes with or without ":443", and with only github.com:3000
\* listed https://github.com/... is refused.
C20_NetMatching ==
  /\ (last.op = "query_net" /\ perms.net.global_state = Prompt
        /\ ~check_host_and_port_list(last.arg[1], last.arg[2], perms.net.denied_list)) =>
       LET host == last.arg[1]
           port == last.arg[2]
       IN (last.ret = Ok(Granted)) <=>
            \/ host \in perms.net.granted_list
            \/ (is_some(port)
                  /\ (host \o ":" \o ToString(unwrap(port))) \in perms.net.granted_list)
  /\ (last.op = "check_net" /\ perms = NetOnly(test_check_net_allowlist)) =>
       (last.ret.ok <=> last.arg \in AllowedByTestList)
  /\ (last.op = "check_net" /\ perms = NetOnly({"github.com:3000"})) =>
       (last.ret.ok <=> last.arg = <<"github.com", Some(3000)>>)
  /\ (last.op = "check_net_url" /\ is_some(last.arg.host)) =>
       (last.ret.ok <=>
          query_net(perms, unwrap(last.arg.host), EffectivePort(last.arg)) = Granted)
  /\ (last.op = "check_net_url" /\ perms = NetOnly({"www.github.com:443"})) =>
       /\ last.arg.host = Some("www.github.com") => last.ret.ok
       /\ check_net_url(perms, Url_parse("https://www.github.com:443/robots.txt").val).ok
       /\ check_net_url(perms, Url_parse("https://www.github.com/robots.txt").val).ok
  /\ (last.op = "check_net_url" /\ perms = NetOnly({"github.com:3000"})) =>
       /\ last.ret.ok <=> (last.arg.host = Some("github.com") /\ last.arg.port = Some(3000))
       /\ ~check_net_url(perms, Url_parse("https://github.com/denoland/deno").val).ok

\* With only www.github.com:443 listed, an https URL to www.github.com that
\* carries no port passes check_net_url.
C20_Witness ==
  /\ perms = NetOnly({"www.github.com:443"})
  /\ last.op = "check_net_url"
  /\ last.arg.host = Some("www.github.com") /\ last.arg.port = None
  /\ last.ret.ok

\* The state the claim gives to an allow flag.
FlagState(allow) == IF allow THEN Granted ELSE Prompt

\* C21: the value built by from_flags has, for each class, the state Granted when
\* the class's allow flag is set and Prompt when it is not, the flags' allow-lists
\* (paths resolved from the working directory) as granted lists and three empty
\* deny-lists; no query on it returns Denied.
C21_FromFlagsNeverDenied ==
  (last.op = "from_flags") =>
    LET flags == last.arg IN
    /\ perms.read = UnaryPermission(FlagState(flags.allow_read),
                                    {resolve_from_cwd(p) : p \in flags.read_allowlist}, {})
    /\ perms.write = UnaryPermission(FlagState(flags.allow_write),
                                     {resolve_from_cwd(p) : p \in flags.write_allowlist}, {})
    /\ perms.net = UnaryPermission(FlagState(flags.allow_net), flags.net_allowlist, {})
    /\ perms.env = FlagState(flags.allow_env)
    /\ perms.run = FlagState(flags.allow_run)
    /\ perms.plugin = FlagState(flags.allow_plugin)
    /\ perms.hrtime = FlagState(flags.allow_hrtime)
    /\ \A path \in PathArgs :
         query_read(perms, path) # Denied /\ query_write(perms, path) # Denied
    /\ \A hp \in HostPorts : query_net(perms, hp[1], hp[2]) # Denied
    /\ \A url \in UrlArgs : query_net_url(perms, url) # Ok(Denied)
    /\ query_env(perms) # Denied /\ query_run(perms) # Denied
    /\ query_plugin(perms) # Denied /\ query_hrtime(perms) # Denied

\* A command line with some allow flags set, others not, and a write allow-list.
C21_Witness ==
  /\ last.op = "from_flags"
  /\ last.arg.allow_read /\ ~last.arg.allow_write
  /\ perms.read.global_state = Granted /\ perms.write.global_state = Prompt
  /\ perms.write.granted_list # {}

Classes == {"read", "write", "net", "env", "run", "plugin", "hrtime"}

\* The class a request_X / revoke_X verb belongs to.
ClassOf(op) ==
  CASE op \in {"request_read", "revoke_read"} -> "read"
    [] op \in {"request_write", "revoke_write"} -> "write"
    [] op \in {"request_net", "revoke_net"} -> "net"
    [] op \in {"request_env", "revoke_env"} -> "env"
    [] op \in {"request_run", "revoke_run"} -> "run"
    [] op \in {"request_plugin", "revoke_plugin"} -> "plugin"
    [] op \in {"request_hrtime", "revoke_hrtime"} -> "hrtime"

IsRequest(op) ==
  op \in {"request_read", "request_write", "request_net", "request_env", "request_run",
          "request_plugin", "request_hrtime"}

\* C22: a request_X or revoke_X call leaves the six fields of the other classes,
\* states and lists, exactly as they were before the call.
C22_OtherClassesUntouched ==
  (IsRequest(last.op) \/ IsRevoke(last.op)) =>
    \A class \in Classes \ {ClassOf(last.op)} : perms[class] = last.pre[class]

\* After write was denied on a path, the operator grants request_net(None):
\* write is still Denied with its deny-list, and net has changed.
C22_Witness ==
  /\ last.op = "request_net" /\ ~is_some(last.arg)
  /\ last.prompted /\ last.ret = Ok(Granted)
  /\ last.pre.write.global_state = Denied /\ last.pre.write.denied_list # {}
  /\ perms.write = last.pre.write
  /\ perms.net # last.pre.net

\* The flag that authorizes the class a check verb belongs to.
AuthorizingFlag(op) ==
  CASE op \in {"check_read", "check_read_blind"} -> "--allow-read"
    [] op = "check_write" -> "--allow-write"
    [] op \in {"check_net", "check_net_url"} -> "--allow-net"
    [] op = "check_env" -> "--allow-env"
    [] op = "check_run" -> "--allow-run"
    [] op = "check_plugin" -> "--allow-plugin"
    [] op = "check_hrtime" -> "--allow-hrtime"

IsCheck(op) ==
  op \in {"check_read", "check_read_blind", "check_write", "check_net", "check_net_url",
          "check_env", "check_run", "check_plugin", "check_hrtime"}

\* The texts that can name the operation of the check recorded in `last`.
OperationTexts ==
  CASE last.op = "check_read" ->
         {"read access to \"" \o display(d) \o "\"" :
            d \in {last.arg, resolve_from_cwd(last.arg)}}
    [] last.op = "check_read_blind" -> {"read access to <" \o last.arg[2] \o ">"}
    [] last.op = "check_write" ->
         {"write access to \"" \o display(d) \o "\"" :
            d \in {last.arg, resolve_from_cwd(last.arg)}}
    [] last.op = "check_net" ->
         {"network access to \"" \o last.arg[1] \o ":" \o ToString(unwrap(last.arg[2])) \o "\""}
    [] last.op = "check_net_url" ->
         {"network access to \"" \o last.arg.serialization \o "\""}
    [] last.op = "check_env" -> {"access to environment variables"}
    [] last.op = "check_run" -> {"access to run a subprocess"}
    [] last.op = "check_plugin" ->
         {"access to open a plugin: " \o display(d) :
            d \in {last.arg, resolve_from_cwd(last.arg)}}
    [] last.op = "check_hrtime" -> {"access to high precision time"}

\* C23: a check_X that fails because the query is not Granted returns an error of
\* kind PermissionDenied whose message is "<operation>, run again with the
\* <flag> flag", <flag> being the flag that authorizes the class X of the check.
C23_FailedCheckNamesItsFlag ==
  (/\ IsCheck(last.op) /\ ~last.ret.ok
   /\ (last.op = "check_net_url" => is_some(last.arg.host))) =>
    /\ last.ret.kind = "PermissionDenied"
    /\ \E operation \in OperationTexts :
         last.ret.msg = operation \o ", run again with the "
                          \o AuthorizingFlag(last.op) \o " flag"

\* The relative paths among those given to the verbs.
RelativePaths == {p \in PurePaths : ~p.abs}

\* C24: in a state where query_read of the working directory is not Granted, the
\* error of a failed check_read, check_write or check_plugin on a relative path,
\* and the prompt text of request_read / request_write for it, hold the path as
\* the caller wrote it and nothing of the working directory, so they are the same
\* text in every working directory; the error of check_read_blind holds the
\* label and no path.
C24_MessagesDoNotLeakCwd ==
  /\ (query_read(perms, Some(cwd)) # Granted) =>
       /\ (last.op = "check_read" /\ ~last.arg.abs /\ ~last.ret.ok) =>
            last.ret.msg = "read access to \"" \o display(last.arg)
                             \o "\", run again with the --allow-read flag"
       /\ (last.op = "check_write" /\ ~last.arg.abs /\ ~last.ret.ok) =>
            last.ret.msg = "write access to \"" \o display(last.arg)
                             \o "\", run again with the --allow-write flag"
       /\ (last.op = "check_plugin" /\ ~last.arg.abs /\ ~last.ret.ok) =>
            last.ret.msg = "access to open a plugin: " \o display(last.arg)
                             \o ", run again with the --allow-plugin flag"
       /\ \A p \in RelativePaths, io \in PromptIO :
            /\ request_read(perms, Some(p), io).prompted =>
                 request_read(perms, Some(p), io).message
                   = "Deno requests read access to \"" \o display(p) \o "\""
            /\ request_write(perms, Some(p), io).prompted =>
                 request_write(perms, Some(p), io).message
                   = "Deno requests write access to \"" \o display(p) \o "\""
  /\ (last.op = "check_read_blind" /\ ~last.ret.ok) =>
       last.ret.msg = "read access to <" \o last.arg[2]
                        \o ">, run again with the --allow-read flag"

\* check_write of a relative path fails in a working directory other than the
\* root that the caller may not read.
C24_Witness ==
  /\ last.op = "check_write" /\ ~last.arg.abs /\ ~last.ret.ok
  /\ cwd # P_root
  /\ query_read(perms, Some(cwd)) # Granted
  /\ display(resolve_from_cwd(last.arg)) # display(last.arg)
  /\ \E io \in PromptIO : request_write(perms, Some(last.arg), io).prompted

\* What the operator could have typed, had the input been read.
TypedInputs == {<<>>, <<"g">>, <<"G">>, <<"x", "g">>, <<"">>, <<"ERR">>, <<"d">>}

NoTTY(io) == ~io.stdin_tty \/ ~io.stderr_tty

\* C25: when stdin or stderr is not a TTY, permission_prompt answers deny whatever
\* is waiting on the input; so a request_X made without a TTY whose query is
\* Prompt returns Denied, for read, write and net with the global state set to
\* Denied, and a request_X made without a TTY returns Granted only when the query
\* was already Granted.
C25_NoTTYDenies ==
  /\ \A stdin_tty, stderr_tty \in BOOLEAN, input \in TypedInputs :
       NoTTY(Terminal(stdin_tty, stderr_tty, input)) =>
         permission_prompt("Deno requests read access", Terminal(stdin_tty, stderr_tty, input))
           = "deny"
  /\ (IsRequest(last.op) /\ NoTTY(last.io)) =>
       /\ last.prompted =>
            /\ last.ret = Ok(Denied)
            /\ ClassOf(last.op) \in {"read", "write", "net"} =>
                 perms[ClassOf(last.op)].global_state = Denied
            /\ ClassOf(last.op) \in Scalars => perms[ClassOf(last.op)] = Denied
       /\ last.ret = Ok(Granted) => (~last.prompted /\ perms = last.pre)

\* request_net(None) without a TTY on stdin, with a "g" waiting on the input.
C25_Witness ==
  /\ last.op = "request_net" /\ ~is_some(last.arg)
  /\ ~last.io.stdin_tty /\ last.io.input = <<"g">>
  /\ last.prompted /\ last.ret = Ok(Denied)
  /\ last.pre.net.global_state = Prompt /\ perms.net.global_state = Denied

\* C28: right after request_read(P) or request_write(P) is granted by the
\* operator, the class's granted_list holds P and no path strictly below P, every
\* earlier entry that is not below P is still there, and the class's global
\* state and denied_list are what they were.
C28_GrantPrunesDescendants ==
  \A class \in {"read", "write"} :
    (last.op = "request_" \o class /\ is_some(last.arg) /\ last.prompted
       /\ last.ret = Ok(Granted)) =>
      LET p == resolve_from_cwd(unwrap(last.arg)) IN
      /\ p \in perms[class].granted_list
      /\ \A a \in perms[class].granted_list : ~StrictlyBelow(a, p)
      /\ \A a \in last.pre[class].granted_list :
           ~EqualOrBelow(a, p) => a \in perms[class].granted_list
      /\ perms[class].granted_list \subseteq last.pre[class].granted_list \cup {p}
      /\ perms[class].global_state = last.pre[class].global_state
      /\ perms[class].denied_list = last.pre[class].denied_list

\* The operator grants write on a path that has a granted path below it.
C28_Witness ==
  /\ last.op = "request_write" /\ is_some(last.arg)
  /\ last.prompted /\ last.ret = Ok(Granted)
  /\ \E a \in last.pre.write.granted_list :
       StrictlyBelow(a, resolve_from_cwd(unwrap(last.arg)))

\* C29: right after request_read(P) or request_write(P) is denied by the
\* operator, the class's denied_list holds P and no strict ancestor of P, every
\* earlier entry that is not an ancestor of P is still there, and the class's
\* granted_list is what it was.
C29_DenialPrunesAncestors ==
  \A class \in {"read", "write"} :
    (last.op = "request_" \o class /\ is_some(last.arg) /\ last.prompted
       /\ last.ret = Ok(Denied)) =>
      LET p == resolve_from_cwd(unwrap(last.arg)) IN
      /\ p \in perms[class].denied_list
      /\ \A d \in perms[class].denied_list : ~StrictlyBelow(p, d)
      /\ \A d \in last.pre[class].denied_list :
           ~EqualOrBelow(p, d) => d \in perms[class].denied_list
      /\ perms[class].denied_list \subseteq last.pre[class].denied_list \cup {p}
      /\ perms[class].granted_list = last.pre[class].granted_list

\* The operator denies read on a path after having denied a path above it.
C29_Witness ==
  /\ last.op = "request_read" /\ is_some(last.arg)
  /\ last.prompted /\ last.ret = Ok(Denied)
  /\ \E d \in last.pre.read.denied_list :
       StrictlyBelow(resolve_from_cwd(unwrap(last.arg)), d)

\* C30: query_net_url(None) returns net.global_state; query_net_url of a URL
\* string that does not parse, or that parses without a host ("localhost:235",
\* "file:/1.txt"), returns an error, of kind URIError when the host is missing,
\* and request_net of the same string returns that error without asking and
\* without changing anything; check_net_url of a URL without a host fails with
\* URIError, not PermissionDenied.
C30_NetUrlErrors ==
  /\ (last.op = "query_net_url" /\ ~is_some(last.arg)) =>
       /\ last.ret = Ok(perms.net.global_state)
       /\ perms = last.pre
  /\ (last.op = "query_net_url" /\ is_some(last.arg)) =>
       LET parsed == Url_parse(unwrap(last.arg)) IN
       /\ ~parsed.ok => ~last.ret.ok
       /\ (parsed.ok /\ ~is_some(parsed.val.host)) =>
            (~last.ret.ok /\ last.ret.kind = "URIError")
       /\ unwrap(last.arg) \in {"localhost:235", "file:/1.txt"} =>
            (~last.ret.ok /\ last.ret.kind = "URIError")
       /\ ~last.ret.ok =>
            \A io \in PromptIO :
              request_net(perms, last.arg, io) = Outcome(perms, last.ret, FALSE, "")
  /\ (last.op = "check_net_url" /\ ~is_some(last.arg.host)) =>
       (~last.ret.ok /\ last.ret.kind = "URIError")

\* query_net_url of "file:/1.txt" on a value whose net is Granted.
C30_Witness ==
  /\ last.op = "query_net_url" /\ last.arg = Some("file:/1.txt")
  /\ perms.net.global_state = Granted
  /\ ~last.ret.ok /\ last.ret.kind = "URIError"

\* The verb call of a caller as one step on the value it found.
Atomic(op, arg, io, self) ==
  CASE op = "request_read" -> Wrap(request_read(self, arg, io))
    [] op = "request_net" -> request_net(self, arg, io)
    [] op = "request_env" -> Wrap(request_env(self, io))
    [] op = "revoke_read" -> Wrap(revoke_read(self, arg))

\* The values between verb calls: the constructed one and the one each returned
\* call left.
CompleteStates ==
  {gate.initial} \cup {callers[c].post : c \in {d \in Callers : callers[d].pc = "done"}}

\* C26: with the mutating calls going through the gate, every query a reader
\* makes reads one of the values between verb calls, never a value inside one:
\* none with a deny-list entry under a global_state that is not Denied, none
\* with the allow-list pruned and the grant missing; and each returned call has
\* left the value, returned the verdict and asked the operator exactly as the
\* verb does in one step on the value the call found.
C26_VerbCallsAtomic ==
  /\ last.op = "query_read" =>
       /\ last.pre \in CompleteStates
       /\ \A class \in {"read", "write", "net"} :
            last.pre[class].denied_list # {} => last.pre[class].global_state = Denied
  /\ \A c \in Callers :
       callers[c].pc = "done" =>
         LET out == Atomic(callers[c].op, callers[c].arg, callers[c].io, callers[c].pre) IN
         /\ callers[c].post = out.perms
         /\ callers[c].ret = out.ret
         /\ callers[c].prompted = out.prompted
         /\ callers[c].message = out.message

\* A reader queries /foo/bar after a granted request for /foo has pruned
\* /foo/bar from the allow-list and inserted /foo: it reads the value the
\* request left, which grants.
C26_Witness ==
  /\ last.op = "query_read" /\ last.arg = Some(P_foo_bar)
  /\ last.ret = Ok(Granted)
  /\ \E c \in Callers :
       /\ callers[c].pc = "done"
       /\ callers[c].op = "request_read" /\ callers[c].arg = Some(P_foo)
       /\ callers[c].ret = Ok(Granted) /\ callers[c].prompted
       /\ P_foo_bar \in callers[c].pre.read.granted_list
       /\ last.pre = callers[c].post
       /\ last.pre.read.granted_list = {P_foo}

\* C27: when two callers have issued the same request for the same target and
\* the first found its query Prompt, the first asked the operator and returned
\* the verdict, the second started from the value the first left, was not
\* asked, and returned the same verdict.
C27_RequestsSerializedAroundPrompt ==
  \A c \in Callers : \A d \in Callers \ {c} :
    ( /\ callers[c].pc = "done" /\ callers[d].pc = "done"
      /\ callers[c].op \in {"request_read", "request_net", "request_env"}
      /\ callers[d].op = callers[c].op /\ callers[d].arg = callers[c].arg
      /\ callers[c].seq < callers[d].seq
      /\ callers[c].state = Ok(Prompt) ) =>
      /\ callers[c].prompted
      /\ callers[c].ret \in {Ok(Granted), Ok(Denied)}
      /\ callers[d].pre = callers[c].post
      /\ ~callers[d].prompted
      /\ callers[d].ret = callers[c].ret

\* The reads up to and including the first that is not an unrecognized line.
RECURSIVE FirstDecisive(_)
FirstDecisive(input) ==
  IF input = <<>> THEN None
  ELSE IF Head(input) \in {"g", "G", "d", "D", "ERR", ""} THEN Some(Head(input))
  ELSE FirstDecisive(Tail(input))

\* C31: with both stdin and stderr TTYs, permission_prompt returns true exactly
\* when the first read that is not an unrecognized line is a line starting with
\* g or G, returns false exactly when it is a line starting with d or D or a
\* failed read, and on every other input, end of input included, it has asked
\* again and has neither returned nor aborted.
C31_PromptAnswers ==
  (last.op = "permission_prompt" /\ last.io.stdin_tty /\ last.io.stderr_tty) =>
    LET first == FirstDecisive(last.io.input) IN
    /\ last.ret = Ok(TRUE) <=> (is_some(first) /\ unwrap(first) \in {"g", "G"})
    /\ last.ret = Ok(FALSE) <=> (is_some(first) /\ unwrap(first) \in {"d", "D", "ERR"})
    /\ (~is_some(first) \/ unwrap(first) = "") =>
         (~last.ret.ok /\ last.ret.kind = "blocked")

\* C32: in every state reached from a from_flags value by request_* and
\* revoke_* calls, for each of read, write and net, a non-empty denied_list
\* implies global_state = Denied.
C32_DenyListImpliesDenied ==
  \A class \in {"read", "write", "net"} :
    perms[class].denied_list # {} => perms[class].global_state = Denied

\* A URL was denied, and a revoke_net without a target came after it.
C32_Witness ==
  /\ perms.net.denied_list # {}
  /\ last.op = "revoke_net" /\ ~is_some(last.arg)
  /\ last.pre.net.denied_list # {}

\* Every query that returns Denied on `before` returns Denied on `after`.
DeniedStaysDenied(before, after) ==
  /\ \A path \in PathArgs :
       /\ query_read(before, path) = Denied => query_read(after, path) = Denied
       /\ query_write(before, path) = Denied => query_write(after, path) = Denied
  /\ \A hp \in HostPorts :
       query_net(before, hp[1], hp[2]) = Denied => query_net(after, hp[1], hp[2]) = Denied
  /\ \A url \in UrlArgs :
       query_net_url(before, url) = Ok(Denied) => query_net_url(after, url) = Ok(Denied)
  /\ query_env(before) = Denied => query_env(after) = Denied
  /\ query_run(before) = Denied => query_run(after) = Denied
  /\ query_plugin(before) = Denied => query_plugin(after) = Denied
  /\ query_hrtime(before) = Denied => query_hrtime(after) = Denied
  /\ \A field \in {"read", "write", "net"} :
       before[field].global_state = Denied => after[field].global_state = Denied

\* C33: a Denied verdict is permanent: whatever request_* or revoke_* call is
\* made and whatever the operator answers, every query, with or without a
\* target, that returned Denied before the call returns Denied after it; a
\* Denied global_state or scalar stays Denied, and a denial that prunes the
\* deny-list leaves the pruned paths Denied.
C33_DeniedIsPermanent ==
  (IsRequest(last.op) \/ IsRevoke(last.op)) => DeniedStaysDenied(last.pre, perms)

\* After /foo was denied for read, /foo/bar is requested and denied: /foo is
\* pruned from the deny-list and still queries Denied.
C33_Witness ==
  /\ last.op = "request_read" /\ last.prompted /\ last.ret = Ok(Denied)
  /\ P_foo \in last.pre.read.denied_list
  /\ P_foo \notin perms.read.denied_list
  /\ query_read(last.pre, Some(P_foo)) = Denied
  /\ query_read(perms, Some(P_foo)) = Denied

\* C34: in every state reached from a from_flags value by request_* and
\* revoke_* calls, for read and for write, no granted_list entry is equal to
\* or an ancestor of a denied_list entry.
C34_NoGrantAboveDenial ==
  \A class \in {"read", "write"} :
    \A granted \in perms[class].granted_list :
      \A denied \in perms[class].denied_list : ~EqualOrAncestor(granted, denied)

\* The operator has granted a write path while a write deny-list was there:
\* both lists hold an entry.
C34_Witness ==
  /\ last.op = "request_write" /\ last.prompted /\ last.ret = Ok(Granted)
  /\ last.pre.write.denied_list # {}
  /\ perms.write.granted_list # {} /\ perms.write.denied_list # {}

\* The paths of a class that an allow-list entry covers and that are not at or
\* above a deny-list entry.
CoveredAndNotDenied(unary) ==
  {path \in RawPaths :
     /\ \E granted \in unary.granted_list : EqualOrAncestor(granted, resolve_from_cwd(path))
     /\ ~\E denied \in unary.denied_list : EqualOrAncestor(resolve_from_cwd(path), denied)}

\* C35: after request_read(None) or request_write(None) is answered deny, the
\* global_state of the class is Denied and its two lists are as before; the
\* untargeted query returns Denied, and every path at or below an allow-list
\* entry and not at or above a deny-list entry still queries Granted and
\* passes its check.
C35_UntargetedDenialKeepsGrants ==
  /\ (last.op = "request_read" /\ ~is_some(last.arg) /\ last.prompted
        /\ last.ret = Ok(Denied)) =>
       /\ perms.read = [last.pre.read EXCEPT !.global_state = Denied]
       /\ query_read(perms, None) = Denied
       /\ \A path \in CoveredAndNotDenied(perms.read) :
            /\ query_read(perms, Some(path)) = Granted
            /\ check_read(perms, path).ok
  /\ (last.op = "request_write" /\ ~is_some(last.arg) /\ last.prompted
        /\ last.ret = Ok(Denied)) =>
       /\ perms.write = [last.pre.write EXCEPT !.global_state = Denied]
       /\ query_write(perms, None) = Denied
       /\ \A path \in CoveredAndNotDenied(perms.write) :
            /\ query_write(perms, Some(path)) = Granted
            /\ check_write(perms, path).ok

\* Read was started with an allow-list holding /foo; the operator denies
\* request_read(None): /foo/bar still queries Granted.
C35_Witness ==
  /\ last.op = "request_read" /\ ~is_some(last.arg) /\ last.prompted
  /\ last.ret = Ok(Denied)
  /\ P_foo \in perms.read.granted_list
  /\ P_foo_bar \in CoveredAndNotDenied(perms.read)
  /\ query_read(perms, Some(P_foo_bar)) = Granted
  /\ query_read(perms, None) = Denied

\* C36: fork compares the allow-lists as sets of entries: whenever the
\* granted_list the child is to have for read, write or net holds an entry
\* that is not an element of the parent's, fork fails with PermissionDenied,
\* "Arguments escalate parent permissions", also when the parent's
\* global_state is Granted and when a parent entry is an ancestor of the
\* child's entry.
C36_ForkListInclusionIsLiteral ==
  (last.op = "fork"
     /\ \E class \in {"read", "write", "net"} :
          ~(last.arg[class].granted_list \subseteq last.pre[class].granted_list)) =>
    /\ ~last.ret.ok
    /\ last.ret.kind = "PermissionDenied"
    /\ last.ret.msg = "Arguments escalate parent permissions"

\* The parent is allow_all and the child is to have read in state Prompt with
\* /foo in its allow-list: the fork has failed.
C36_Witness ==
  /\ last.op = "fork" /\ last.pre = allow_all
  /\ last.arg.read = UnaryPermission(Prompt, {P_foo}, {})
  /\ ~last.ret.ok

\* The parent's read allow-list holds / and the child's holds / and /foo, with
\* nothing else changed: the fork has failed.
C36_WitnessAncestor ==
  /\ last.op = "fork"
  /\ last.pre.read.granted_list = {P_root}
  /\ last.arg = [last.pre EXCEPT !.read.granted_list = {P_root, P_foo}]
  /\ ~last.ret.ok

\* C37: request_net(Some(U)) with a URL U that does not parse or has no host
\* returns the error, has not asked the operator, and leaves the whole
\* Permissions value as it was.
C37_RequestNetErrorChangesNothing ==
  (last.op = "request_net" /\ is_some(last.arg)
     /\ (~Url_parse(unwrap(last.arg)).ok
           \/ ~is_some(Url_parse(unwrap(last.arg)).val.host))) =>
    /\ ~last.ret.ok
    /\ ~last.prompted /\ last.message = ""
    /\ perms = last.pre

\* request_net of the host-less "localhost:235" on a terminal where the
\* operator would grant, with net in state Prompt: URIError.
C37_Witness ==
  /\ last.op = "request_net" /\ last.arg = Some("localhost:235")
  /\ last.io = Terminal(TRUE, TRUE, <<"g">>)
  /\ last.pre.net.global_state = Prompt
  /\ ~last.ret.ok /\ last.ret.kind = "URIError"

\* C38: revoke_net(Some(U)) removes from net.granted_list the entry that is
\* the string U and nothing else, so the host and host:port entries that
\* authorize U are kept; for a valid URL U the verdict of
\* query_net_url(Some(U)) is the same before and after the call, and the call
\* returns it.
C38_RevokeNetUrlKeepsVerdict ==
  (last.op = "revoke_net" /\ is_some(last.arg)) =>
    LET U == unwrap(last.arg)
        parsed == Url_parse(U)
    IN /\ perms = [last.pre EXCEPT !.net.granted_list = @ \ {U}]
       /\ (parsed.ok /\ is_some(parsed.val.host)) =>
            /\ \A entry \in last.pre.net.granted_list :
                 check_host_and_port_list(unwrap(parsed.val.host),
                                          port_or_known_default(parsed.val), {entry})
                   => entry \in perms.net.granted_list
            /\ query_net_url(last.pre, last.arg).ok
            /\ query_net_url(perms, last.arg) = query_net_url(last.pre, last.arg)
            /\ last.ret = query_net_url(last.pre, last.arg)

\* With "deno.land" in the net allow-list and net in state Prompt,
\* revoke_net(Some("https://deno.land/std")) returns Granted as before.
C38_Witness ==
  /\ last.op = "revoke_net" /\ last.arg = Some("https://deno.land/std")
  /\ last.pre.net.global_state = Prompt
  /\ "deno.land" \in last.pre.net.granted_list
  /\ "deno.land" \in perms.net.granted_list
  /\ last.ret = Ok(Granted)

=============================================================================
